---- MODULE Spec2Model ----
(***************************************************************************)
(* State-machine model of the recommendation API: the route handlers of    *)
(* app/routers (recommendations, comments, reactions), the tables of       *)
(* app/models.py with their uniqueness constraints, and the tag and        *)
(* fiction-type deduplication of save_tags / save_fiction_type.            *)
(*                                                                         *)
(* Strings that the code processes character by character (tag labels,     *)
(* fiction-type names) are sequences of one-character strings; the other   *)
(* text fields are opaque strings.                                         *)
(***************************************************************************)
EXTENDS Integers, Sequences, FiniteSets, TLC

VARIABLES db, inflight, last, norm, auth

vars == <<db, inflight, last, norm, auth>>

------------------------------------------------------------------------------
(* Bounds of the model. *)

NumUsers == 2
MaxRows == 2
MaxDedupRecommendations == 2
MaxRaceRecommendations == 2
MaxLen == 4
MaxTime == 2
MaxAuthRecommendations == 1
MaxChildRows == 3

(* Program constants. *)

FictionTypeMinLength == 4
FictionTypeMaxLength == 255

------------------------------------------------------------------------------
(* Character strings. *)

SP == " "

LowerChar(c) ==
    CASE c = "A" -> "a"
      [] c = "B" -> "b"
      [] c = "F" -> "f"
      [] OTHER -> c

\* str.lower()
Lower(s) == [i \in 1..Len(s) |-> LowerChar(s[i])]

\* str.replace(old, new) for one-character old and new
Replace(s, old, new) == [i \in 1..Len(s) |-> IF s[i] = old THEN new ELSE s[i]]

RECURSIVE LStrip(_)
LStrip(s) == IF s # <<>> /\ Head(s) = SP THEN LStrip(Tail(s)) ELSE s

RECURSIVE RStrip(_)
RStrip(s) ==
    IF s # <<>> /\ s[Len(s)] = SP THEN RStrip(SubSeq(s, 1, Len(s) - 1)) ELSE s

\* str.strip()
Strip(s) == RStrip(LStrip(s))

\* save_tags: tag.strip().replace(' ', '-').lower()
TagName(tag) == Lower(Replace(Strip(tag), SP, "-"))

\* save_fiction_type: fiction_type.strip().lower()
FictionTypeName(fiction_type) == Lower(Strip(fiction_type))

\* save_fiction_type: fiction_type.replace(' ', '-')
FictionTypeSlug(name) == Replace(name, SP, "-")

------------------------------------------------------------------------------
(* Optional values: <<>> is "not set", <<v>> is "set to v". *)

Unset == <<>>
Some(v) == <<v>>
IsSet(o) == o # <<>>
Val(o) == o[1]

------------------------------------------------------------------------------
(* The database. *)

Users == 1..NumUsers

EmptyDb ==
    [tag |-> {}, fiction_type |-> {}, recommendation |-> {},
     tagged_recommendations |-> {}, comment |-> {}, reaction |-> {},
     seq |-> [tag |-> 0, fiction_type |-> 0, recommendation |-> 0,
              comment |-> 0, reaction |-> 0]]

\* The default of the column `published` is the value of datetime.utcnow()
\* when the module of the models is imported: the time the process started.
ImportTime == 0

\* session.get(Recommendation, recommendation_id)
get_recommendation_by_id(d, recommendation_id) ==
    {r \in d.recommendation : r.id = recommendation_id}

\* the lookup of a comment by its id alone
get_comment_by_id(d, recommendation_id, comment_id) ==
    {c \in d.comment : c.id = comment_id}

get_comment_by_id_and_recommendation_id(d, recommendation_id, comment_id) ==
    {c \in d.comment : c.recommendation_id = recommendation_id /\ c.id = comment_id}

get_reaction_by_id_and_recommendation_id(d, recommendation_id, reaction_id) ==
    {c \in d.reaction : c.recommendation_id = recommendation_id /\ c.id = reaction_id}

get_reaction_by_recommendation_id_and_user_id(d, recommendation_id, user_id) ==
    {c \in d.reaction : c.recommendation_id = recommendation_id /\ c.user_id = user_id}

\* .first() of a result set: the row with the least id
First(rows) == CHOOSE r \in rows : \A q \in rows : r.id <= q.id

\* the tags linked to a recommendation
TagsOf(d, recommendation_id) ==
    {l.tag_id : l \in {k \in d.tagged_recommendations :
                          k.recommendation_id = recommendation_id}}

\* a table without the unique index
UniqueViolation_off(existing, new) == FALSE

\* A unique index: inserting the keys `new` (in order) into a table holding
\* the keys `existing` violates it when a new key is already present or is
\* inserted twice.
UniqueViolation(existing, new) ==
    \/ \E i \in 1..Len(new) : new[i] \in existing
    \/ \E i, j \in 1..Len(new) : i < j /\ new[i] = new[j]

------------------------------------------------------------------------------
(* The deduplicator.  A row object with id 0 is transient: constructed but *)
(* not stored.                                                             *)

\* save_tags without the lookup of the existing row
save_tags_no_lookup(d, tags) ==
    [i \in 1..Len(tags) |-> [id |-> 0, name |-> TagName(tags[i])]]

save_tags(d, tags) ==
    [i \in 1..Len(tags) |->
        LET tag == TagName(tags[i])
            existing_tag == {t \in d.tag : t.name = tag}
        IN  IF existing_tag # {} THEN First(existing_tag)
            ELSE [id |-> 0, name |-> tag]]

save_fiction_type(d, fiction_type) ==
    LET name == FictionTypeName(fiction_type)
        existing == {f \in d.fiction_type : f.name = name}
    IN  IF existing # {} THEN First(existing)
        ELSE [id |-> 0, name |-> name, slug |-> FictionTypeSlug(name)]

------------------------------------------------------------------------------
(* The unit of work of a session and its flush at commit.                   *)
(* A unit of work u has: op ("insert" or "update"), id (the row updated),   *)
(* user_id, the optional new values title, short_description, opinion,      *)
(* fiction_type (a row object) and tags (a list of row objects), and        *)
(* old_tags, the tag ids of the collection loaded when tags was assigned.   *)

\* the ids of the objects of a list once flushed: a transient object gets
\* the next id of the sequence
FlushedIds(objs, base) ==
    [i \in 1..Len(objs) |->
        IF objs[i].id = 0
        THEN base + Cardinality({j \in 1..i : objs[j].id = 0})
        ELSE objs[i].id]

IsTransient(o) == o.id = 0

Names(objs) == [i \in 1..Len(objs) |-> objs[i].name]

\* sane_rowcount: whether the driver reports the row count of a DELETE on
\* the link table (the flush raises StaleDataError on a mismatch).
Flush(d, u, sane_rowcount) ==
    LET rid == IF u.op = "insert" THEN d.seq.recommendation + 1 ELSE u.id
        target == get_recommendation_by_id(d, rid)
        fo == Val(u.fiction_type)
        ft_new == IsSet(u.fiction_type) /\ IsTransient(fo)
        ft_id == IF ft_new THEN d.seq.fiction_type + 1 ELSE fo.id
        ft_violation ==
            ft_new /\ (\/ UniqueViolation({f.name : f \in d.fiction_type}, <<fo.name>>)
                       \/ UniqueViolation({f.slug : f \in d.fiction_type}, <<fo.slug>>))
        objs == IF IsSet(u.tags) THEN Val(u.tags) ELSE <<>>
        \* the collection history: objects not in the loaded collection
        added == SelectSeq(objs, LAMBDA o : IsTransient(o) \/ o.id \notin u.old_tags)
        removed == IF IsSet(u.tags)
                   THEN u.old_tags \ {objs[i].id : i \in 1..Len(objs)}
                   ELSE {}
        ids == FlushedIds(added, d.seq.tag)
        fresh == SelectSeq(added, IsTransient)
        tag_violation == UniqueViolation({t.name : t \in d.tag}, Names(fresh))
        link_violation == UniqueViolation(TagsOf(d, rid), ids)
        stale == \/ u.op = "update" /\ target = {}
                 \/ sane_rowcount /\ ~(removed \subseteq TagsOf(d, rid))
        old == First(target)
        row == IF u.op = "insert"
               THEN [id |-> rid, user_id |-> u.user_id, fiction_type_id |-> ft_id,
                     title |-> Val(u.title),
                     short_description |-> Val(u.short_description),
                     opinion |-> Val(u.opinion),
                     published |-> ImportTime, updated |-> 0]
               ELSE [id |-> rid, user_id |-> old.user_id,
                     fiction_type_id |-> IF IsSet(u.fiction_type) THEN ft_id
                                         ELSE old.fiction_type_id,
                     title |-> IF IsSet(u.title) THEN Val(u.title) ELSE old.title,
                     short_description |-> IF IsSet(u.short_description)
                                           THEN Val(u.short_description)
                                           ELSE old.short_description,
                     opinion |-> IF IsSet(u.opinion) THEN Val(u.opinion)
                                 ELSE old.opinion,
                     published |-> old.published, updated |-> 1]
    IN  IF ft_violation \/ tag_violation \/ link_violation \/ stale
        THEN [ok |-> FALSE, db |-> d]
        ELSE [ok |-> TRUE,
              db |-> [d EXCEPT
                 !.fiction_type = IF ft_new
                                  THEN @ \cup {[id |-> ft_id, name |-> fo.name,
                                                slug |-> fo.slug]}
                                  ELSE @,
                 !.tag = @ \cup {[id |-> ids[i], name |-> added[i].name] :
                                    i \in {j \in 1..Len(added) : IsTransient(added[j])}},
                 !.tagged_recommendations =
                     {l \in @ : ~(l.recommendation_id = rid /\ l.tag_id \in removed)}
                     \cup {[recommendation_id |-> rid, tag_id |-> ids[i]] :
                              i \in 1..Len(ids)},
                 !.recommendation = (@ \ target) \cup {row},
                 !.seq = [@ EXCEPT
                     !.fiction_type = IF ft_new THEN ft_id ELSE @,
                     !.tag = @ + Len(fresh),
                     !.recommendation = IF u.op = "insert" THEN rid ELSE @]]]

------------------------------------------------------------------------------
(* Identity resolution and responses. *)

\* The token of a request is the id of the identity it was issued for, or 0
\* when the request carries no valid bearer token.
Tokens == {0} \cup Users

get_current_user(token) == IF token \in Users THEN token ELSE 0

Response(d, status) ==
    [db |-> d, status |-> status,
     hdr |-> IF status = 401 THEN "Bearer" ELSE "",
     detail |-> ""]

\* the 404 whose detail names the resource that was not found
NotFoundResponse(d, resource) == [Response(d, 404) EXCEPT !.detail = resource]

------------------------------------------------------------------------------
(* Request bodies and their schemas. *)

\* a request that carries no JSON body
NoBody == [body |-> Unset]

RecommendationCreateValid(data) ==
    /\ data # NoBody
    /\ IsSet(data.title) /\ IsSet(data.short_description) /\ IsSet(data.opinion)
    /\ IsSet(data.fiction_type)
    /\ Len(Val(data.fiction_type)) >= FictionTypeMinLength
    /\ Len(Val(data.fiction_type)) <= FictionTypeMaxLength
    /\ IsSet(data.tags) /\ Len(Val(data.tags)) >= 1

RecommendationUpdateValid(data) ==
    /\ data # NoBody
    /\ IsSet(data.fiction_type) =>
          /\ Len(Val(data.fiction_type)) >= FictionTypeMinLength
          /\ Len(Val(data.fiction_type)) <= FictionTypeMaxLength
    /\ IsSet(data.tags) => Len(Val(data.tags)) >= 1

\* data.dict(exclude_unset=True) is empty
NoData(data) == \A k \in DOMAIN data : ~IsSet(data[k])

\* the truth value of data.get(k) for a text field
Truthy(o) == IsSet(o) /\ Val(o) # ""

\* the truth value of data.get(k) for a sequence-valued field
TruthySeq(o) == IsSet(o) /\ Val(o) # <<>>

CommentValid(data) == data # NoBody /\ IsSet(data.content)

ReactionValid(data) == data # NoBody /\ IsSet(data.is_positive)

------------------------------------------------------------------------------
(* Recommendation handlers.  A handler maps the database and a request to  *)
(* the database after the request and the response.                        *)

\* the session's unit of work when post_recommendation reaches its commit
post_recommendation_uow(d, current_user, data) ==
    [op |-> "insert", id |-> 0, user_id |-> current_user,
     title |-> data.title, short_description |-> data.short_description,
     opinion |-> data.opinion,
     fiction_type |-> Some(save_fiction_type(d, Val(data.fiction_type))),
     tags |-> Some(save_tags(d, Val(data.tags))),
     old_tags |-> {}]

\* the status post_recommendation ends in before its body runs, 0 for none
post_recommendation_check(d, token, data) ==
    IF get_current_user(token) = 0 THEN 401
    ELSE IF ~RecommendationCreateValid(data) THEN 422
    ELSE 0

post_recommendation(d, token, data) ==
    LET check == post_recommendation_check(d, token, data)
        f == Flush(d, post_recommendation_uow(d, get_current_user(token), data), TRUE)
    IN  IF check # 0 THEN Response(d, check)
        ELSE IF f.ok THEN Response(f.db, 201)
        ELSE Response(d, 500)

\* a unit of work that assigns every field the body supplies, empty or not
update_recommendation_uow_supplied(d, recommendation_id, data) ==
    [op |-> "update", id |-> recommendation_id, user_id |-> 0,
     title |-> data.title,
     short_description |-> data.short_description,
     opinion |-> data.opinion,
     fiction_type |-> IF TruthySeq(data.fiction_type)
                      THEN Some(save_fiction_type(d, Val(data.fiction_type)))
                      ELSE Unset,
     tags |-> IF TruthySeq(data.tags) THEN Some(save_tags(d, Val(data.tags)))
              ELSE Unset,
     old_tags |-> IF TruthySeq(data.tags) THEN TagsOf(d, recommendation_id) ELSE {}]

\* a unit of work that takes the loaded tag collection for empty
update_recommendation_uow_append(d, recommendation_id, data) ==
    [op |-> "update", id |-> recommendation_id, user_id |-> 0,
     title |-> IF Truthy(data.title) THEN data.title ELSE Unset,
     short_description |-> IF Truthy(data.short_description)
                           THEN data.short_description ELSE Unset,
     opinion |-> IF Truthy(data.opinion) THEN data.opinion ELSE Unset,
     fiction_type |-> IF TruthySeq(data.fiction_type)
                      THEN Some(save_fiction_type(d, Val(data.fiction_type)))
                      ELSE Unset,
     tags |-> IF TruthySeq(data.tags) THEN Some(save_tags(d, Val(data.tags)))
              ELSE Unset,
     old_tags |-> {}]

\* the session's unit of work when update_recommendation reaches its commit
update_recommendation_uow(d, recommendation_id, data) ==
    [op |-> "update", id |-> recommendation_id, user_id |-> 0,
     title |-> IF Truthy(data.title) THEN data.title ELSE Unset,
     short_description |-> IF Truthy(data.short_description)
                           THEN data.short_description ELSE Unset,
     opinion |-> IF Truthy(data.opinion) THEN data.opinion ELSE Unset,
     fiction_type |-> IF TruthySeq(data.fiction_type)
                      THEN Some(save_fiction_type(d, Val(data.fiction_type)))
                      ELSE Unset,
     tags |-> IF TruthySeq(data.tags) THEN Some(save_tags(d, Val(data.tags)))
              ELSE Unset,
     old_tags |-> IF TruthySeq(data.tags) THEN TagsOf(d, recommendation_id) ELSE {}]

\* the checks of update_recommendation with the empty-body check first
update_recommendation_check_no_data_first(d, token, recommendation_id, data) ==
    LET current_user == get_current_user(token)
        recommendation == get_recommendation_by_id(d, recommendation_id)
    IN  IF current_user = 0 THEN 401
        ELSE IF ~RecommendationUpdateValid(data) THEN 422
        ELSE IF NoData(data) THEN 400
        ELSE IF recommendation = {} THEN 404
        ELSE IF First(recommendation).user_id # current_user THEN 403
        ELSE 0

\* the status update_recommendation ends in before it mutates, 0 for none
update_recommendation_check(d, token, recommendation_id, data) ==
    LET current_user == get_current_user(token)
        recommendation == get_recommendation_by_id(d, recommendation_id)
    IN  IF current_user = 0 THEN 401
        ELSE IF ~RecommendationUpdateValid(data) THEN 422
        ELSE IF recommendation = {} THEN 404
        ELSE IF First(recommendation).user_id # current_user THEN 403
        ELSE IF NoData(data) THEN 400
        ELSE 0

\* update_recommendation with the ownership comparison after the commit
update_recommendation_commit_first(d, token, recommendation_id, data) ==
    LET current_user == get_current_user(token)
        recommendation == get_recommendation_by_id(d, recommendation_id)
        f == Flush(d, update_recommendation_uow(d, recommendation_id, data), TRUE)
    IN  IF current_user = 0 THEN Response(d, 401)
        ELSE IF ~RecommendationUpdateValid(data) THEN Response(d, 422)
        ELSE IF recommendation = {} THEN NotFoundResponse(d, "recommendation")
        ELSE IF NoData(data) THEN Response(d, 400)
        ELSE IF First(recommendation).user_id # current_user THEN Response(f.db, 403)
        ELSE IF f.ok THEN Response(f.db, 200)
        ELSE Response(d, 500)

update_recommendation(d, token, recommendation_id, data) ==
    LET check == update_recommendation_check(d, token, recommendation_id, data)
        f == Flush(d, update_recommendation_uow(d, recommendation_id, data), TRUE)
    IN  IF check = 404 THEN NotFoundResponse(d, "recommendation")
        ELSE IF check # 0 THEN Response(d, check)
        ELSE IF f.ok THEN Response(f.db, 200)
        ELSE Response(d, 500)

\* a delete that cascades to the tags and the fiction type of the
\* recommendation
DeleteRecommendation_with_reference_data(d, recommendation_id) ==
    [d EXCEPT
        !.recommendation = {r \in @ : r.id # recommendation_id},
        !.tagged_recommendations = {l \in @ : l.recommendation_id # recommendation_id},
        !.tag = {t \in @ : t.id \notin TagsOf(d, recommendation_id)},
        !.fiction_type = {f \in @ : \A r \in d.recommendation :
                             r.id = recommendation_id => r.fiction_type_id # f.id},
        !.comment = {c \in @ : c.recommendation_id # recommendation_id},
        !.reaction = {c \in @ : c.recommendation_id # recommendation_id}]

\* session.delete(recommendation): the comments and reactions cascade, the
\* rows of the link table go with the recommendation
\* a delete that leaves the comments and reactions of the recommendation
DeleteRecommendation_no_cascade(d, recommendation_id) ==
    [d EXCEPT
        !.recommendation = {r \in @ : r.id # recommendation_id},
        !.tagged_recommendations = {l \in @ : l.recommendation_id # recommendation_id}]

DeleteRecommendation(d, recommendation_id) ==
    [d EXCEPT
        !.recommendation = {r \in @ : r.id # recommendation_id},
        !.tagged_recommendations = {l \in @ : l.recommendation_id # recommendation_id},
        !.comment = {c \in @ : c.recommendation_id # recommendation_id},
        !.reaction = {c \in @ : c.recommendation_id # recommendation_id}]

\* delete_recommendation with the lookup before the identity is resolved
delete_recommendation_lookup_first(d, token, recommendation_id) ==
    LET current_user == get_current_user(token)
        recommendation == get_recommendation_by_id(d, recommendation_id)
    IN  IF recommendation = {} THEN NotFoundResponse(d, "recommendation")
        ELSE IF current_user = 0 THEN Response(d, 401)
        ELSE IF First(recommendation).user_id # current_user THEN Response(d, 403)
        ELSE Response(DeleteRecommendation(d, recommendation_id), 204)

delete_recommendation(d, token, recommendation_id) ==
    LET current_user == get_current_user(token)
        recommendation == get_recommendation_by_id(d, recommendation_id)
    IN  IF current_user = 0 THEN Response(d, 401)
        ELSE IF recommendation = {} THEN NotFoundResponse(d, "recommendation")
        ELSE IF First(recommendation).user_id # current_user THEN Response(d, 403)
        ELSE Response(DeleteRecommendation(d, recommendation_id), 204)

get_recommendation(d, recommendation_id) ==
    IF get_recommendation_by_id(d, recommendation_id) = {}
    THEN NotFoundResponse(d, "recommendation")
    ELSE Response(d, 200)

------------------------------------------------------------------------------
(* Comment handlers. *)

get_comment(d, recommendation_id, comment_id) ==
    LET recommendation == get_recommendation_by_id(d, recommendation_id)
        comment == get_comment_by_id_and_recommendation_id(d, recommendation_id, comment_id)
    IN  IF recommendation = {} THEN NotFoundResponse(d, "recommendation")
        ELSE IF comment = {} THEN NotFoundResponse(d, "comment")
        ELSE Response(d, 200)

\* post_comment with the recommendation's owner as the owner of the comment
post_comment_owner_of_recommendation(d, token, recommendation_id, data) ==
    LET current_user == get_current_user(token)
        recommendation == get_recommendation_by_id(d, recommendation_id)
        new_comment == [id |-> d.seq.comment + 1,
                        user_id |-> First(recommendation).user_id,
                        recommendation_id |-> First(recommendation).id,
                        content |-> Val(data.content),
                        published |-> ImportTime, updated |-> 0]
    IN  IF current_user = 0 THEN Response(d, 401)
        ELSE IF ~CommentValid(data) THEN Response(d, 422)
        ELSE IF recommendation = {} THEN NotFoundResponse(d, "recommendation")
        ELSE Response([d EXCEPT !.comment = @ \cup {new_comment},
                                !.seq.comment = @ + 1], 201)

post_comment(d, token, recommendation_id, data) ==
    LET current_user == get_current_user(token)
        recommendation == get_recommendation_by_id(d, recommendation_id)
        new_comment == [id |-> d.seq.comment + 1, user_id |-> current_user,
                        recommendation_id |-> First(recommendation).id,
                        content |-> Val(data.content),
                        published |-> ImportTime, updated |-> 0]
    IN  IF current_user = 0 THEN Response(d, 401)
        ELSE IF ~CommentValid(data) THEN Response(d, 422)
        ELSE IF recommendation = {} THEN NotFoundResponse(d, "recommendation")
        ELSE Response([d EXCEPT !.comment = @ \cup {new_comment},
                                !.seq.comment = @ + 1], 201)

\* update_comment with the lookups before the validation of the body
update_comment_lookup_first(d, token, recommendation_id, comment_id, data) ==
    LET current_user == get_current_user(token)
        recommendation == get_recommendation_by_id(d, recommendation_id)
        comment == get_comment_by_id_and_recommendation_id(d, recommendation_id, comment_id)
        old == First(comment)
        new == [old EXCEPT
                   !.content = IF Truthy(data.content) THEN Val(data.content) ELSE @,
                   !.updated = 1]
    IN  IF current_user = 0 THEN Response(d, 401)
        ELSE IF recommendation = {} THEN NotFoundResponse(d, "recommendation")
        ELSE IF comment = {} THEN NotFoundResponse(d, "comment")
        ELSE IF ~CommentValid(data) THEN Response(d, 422)
        ELSE IF old.user_id # current_user THEN Response(d, 403)
        ELSE Response([d EXCEPT !.comment = (@ \ {old}) \cup {new}], 200)

\* update_comment with the timestamp set before the ownership comparison
update_comment_stamp_first(d, token, recommendation_id, comment_id, data) ==
    LET current_user == get_current_user(token)
        recommendation == get_recommendation_by_id(d, recommendation_id)
        comment == get_comment_by_id_and_recommendation_id(d, recommendation_id, comment_id)
        old == First(comment)
        stamped == [old EXCEPT !.updated = 1]
        new == [old EXCEPT
                   !.content = IF Truthy(data.content) THEN Val(data.content) ELSE @,
                   !.updated = 1]
    IN  IF current_user = 0 THEN Response(d, 401)
        ELSE IF ~CommentValid(data) THEN Response(d, 422)
        ELSE IF recommendation = {} THEN NotFoundResponse(d, "recommendation")
        ELSE IF comment = {} THEN NotFoundResponse(d, "comment")
        ELSE IF old.user_id # current_user
             THEN Response([d EXCEPT !.comment = (@ \ {old}) \cup {stamped}], 403)
        ELSE Response([d EXCEPT !.comment = (@ \ {old}) \cup {new}], 200)

update_comment(d, token, recommendation_id, comment_id, data) ==
    LET current_user == get_current_user(token)
        recommendation == get_recommendation_by_id(d, recommendation_id)
        comment == get_comment_by_id_and_recommendation_id(d, recommendation_id, comment_id)
        old == First(comment)
        new == [old EXCEPT
                   !.content = IF Truthy(data.content) THEN Val(data.content) ELSE @,
                   !.updated = 1]
    IN  IF current_user = 0 THEN Response(d, 401)
        ELSE IF ~CommentValid(data) THEN Response(d, 422)
        ELSE IF recommendation = {} THEN NotFoundResponse(d, "recommendation")
        ELSE IF comment = {} THEN NotFoundResponse(d, "comment")
        ELSE IF old.user_id # current_user THEN Response(d, 403)
        ELSE Response([d EXCEPT !.comment = (@ \ {old}) \cup {new}], 200)

\* delete_comment without the ownership comparison
delete_comment_no_owner_check(d, token, recommendation_id, comment_id) ==
    LET current_user == get_current_user(token)
        recommendation == get_recommendation_by_id(d, recommendation_id)
        comment == get_comment_by_id_and_recommendation_id(d, recommendation_id, comment_id)
    IN  IF current_user = 0 THEN Response(d, 401)
        ELSE IF recommendation = {} THEN NotFoundResponse(d, "recommendation")
        ELSE IF comment = {} THEN NotFoundResponse(d, "comment")
        ELSE Response([d EXCEPT !.comment = @ \ comment], 204)

delete_comment(d, token, recommendation_id, comment_id) ==
    LET current_user == get_current_user(token)
        recommendation == get_recommendation_by_id(d, recommendation_id)
        comment == get_comment_by_id_and_recommendation_id(d, recommendation_id, comment_id)
    IN  IF current_user = 0 THEN Response(d, 401)
        ELSE IF recommendation = {} THEN NotFoundResponse(d, "recommendation")
        ELSE IF comment = {} THEN NotFoundResponse(d, "comment")
        ELSE IF First(comment).user_id # current_user THEN Response(d, 403)
        ELSE Response([d EXCEPT !.comment = @ \ comment], 204)

------------------------------------------------------------------------------
(* Reaction handlers. *)

\* post_reaction without the lookup of the user's existing reaction
post_reaction_no_conflict(d, token, recommendation_id, data) ==
    LET current_user == get_current_user(token)
        recommendation == get_recommendation_by_id(d, recommendation_id)
        new_reaction == [id |-> d.seq.reaction + 1, user_id |-> current_user,
                         recommendation_id |-> First(recommendation).id,
                         is_positive |-> Val(data.is_positive)]
    IN  IF current_user = 0 THEN Response(d, 401)
        ELSE IF ~ReactionValid(data) THEN Response(d, 422)
        ELSE IF recommendation = {} THEN NotFoundResponse(d, "recommendation")
        ELSE Response([d EXCEPT !.reaction = @ \cup {new_reaction},
                                !.seq.reaction = @ + 1], 201)

post_reaction(d, token, recommendation_id, data) ==
    LET current_user == get_current_user(token)
        recommendation == get_recommendation_by_id(d, recommendation_id)
        existing_reaction ==
            get_reaction_by_recommendation_id_and_user_id(d, recommendation_id, current_user)
        new_reaction == [id |-> d.seq.reaction + 1, user_id |-> current_user,
                         recommendation_id |-> First(recommendation).id,
                         is_positive |-> Val(data.is_positive)]
    IN  IF current_user = 0 THEN Response(d, 401)
        ELSE IF ~ReactionValid(data) THEN Response(d, 422)
        ELSE IF recommendation = {} THEN NotFoundResponse(d, "recommendation")
        ELSE IF existing_reaction # {} THEN Response(d, 409)
        ELSE Response([d EXCEPT !.reaction = @ \cup {new_reaction},
                                !.seq.reaction = @ + 1], 201)

\* update_reaction with a comparison against the recommendation's owner
\* before the reaction is looked up
update_reaction_owner_first(d, token, recommendation_id, reaction_id, data) ==
    LET current_user == get_current_user(token)
        recommendation == get_recommendation_by_id(d, recommendation_id)
        reaction == get_reaction_by_id_and_recommendation_id(d, recommendation_id, reaction_id)
        old == First(reaction)
        new == [old EXCEPT !.is_positive = Val(data.is_positive)]
    IN  IF current_user = 0 THEN Response(d, 401)
        ELSE IF ~ReactionValid(data) THEN Response(d, 422)
        ELSE IF recommendation = {} THEN NotFoundResponse(d, "recommendation")
        ELSE IF First(recommendation).user_id # current_user THEN Response(d, 403)
        ELSE IF reaction = {} THEN NotFoundResponse(d, "reaction")
        ELSE Response([d EXCEPT !.reaction = (@ \ {old}) \cup {new}], 200)

get_reaction(d, recommendation_id, reaction_id) ==
    LET recommendation == get_recommendation_by_id(d, recommendation_id)
        reaction == get_reaction_by_id_and_recommendation_id(d, recommendation_id, reaction_id)
    IN  IF recommendation = {} THEN NotFoundResponse(d, "recommendation")
        ELSE IF reaction = {} THEN NotFoundResponse(d, "reaction")
        ELSE Response(d, 200)

\* update_reaction assigning the value only when it is truthy
update_reaction_if_truthy(d, token, recommendation_id, reaction_id, data) ==
    LET current_user == get_current_user(token)
        recommendation == get_recommendation_by_id(d, recommendation_id)
        reaction == get_reaction_by_id_and_recommendation_id(d, recommendation_id, reaction_id)
        old == First(reaction)
        new == IF Val(data.is_positive)
               THEN [old EXCEPT !.is_positive = Val(data.is_positive)]
               ELSE old
    IN  IF current_user = 0 THEN Response(d, 401)
        ELSE IF ~ReactionValid(data) THEN Response(d, 422)
        ELSE IF recommendation = {} THEN NotFoundResponse(d, "recommendation")
        ELSE IF reaction = {} THEN NotFoundResponse(d, "reaction")
        ELSE IF old.user_id # current_user THEN Response(d, 403)
        ELSE Response([d EXCEPT !.reaction = (@ \ {old}) \cup {new}], 200)

update_reaction(d, token, recommendation_id, reaction_id, data) ==
    LET current_user == get_current_user(token)
        recommendation == get_recommendation_by_id(d, recommendation_id)
        reaction == get_reaction_by_id_and_recommendation_id(d, recommendation_id, reaction_id)
        old == First(reaction)
        new == [old EXCEPT !.is_positive = Val(data.is_positive)]
    IN  IF current_user = 0 THEN Response(d, 401)
        ELSE IF ~ReactionValid(data) THEN Response(d, 422)
        ELSE IF recommendation = {} THEN NotFoundResponse(d, "recommendation")
        ELSE IF reaction = {} THEN NotFoundResponse(d, "reaction")
        ELSE IF old.user_id # current_user THEN Response(d, 403)
        ELSE Response([d EXCEPT !.reaction = (@ \ {old}) \cup {new}], 200)

delete_reaction(d, token, recommendation_id, reaction_id) ==
    LET current_user == get_current_user(token)
        recommendation == get_recommendation_by_id(d, recommendation_id)
        reaction == get_reaction_by_id_and_recommendation_id(d, recommendation_id, reaction_id)
    IN  IF current_user = 0 THEN Response(d, 401)
        ELSE IF recommendation = {} THEN NotFoundResponse(d, "recommendation")
        ELSE IF reaction = {} THEN NotFoundResponse(d, "reaction")
        ELSE IF First(reaction).user_id # current_user THEN Response(d, 403)
        ELSE Response([d EXCEPT !.reaction = @ \ reaction], 204)

------------------------------------------------------------------------------
(* Inputs of the requests. *)

film == <<"f", "i", "l", "m">>
Film_ == <<"F", "i", "l", "m", " ">>
a_b_ == <<"a", " ", "b", " ">>
a_hyphen_b_ == <<"a", "-", "b", " ">>
fi == <<"f", "i">>

ab == <<"a", "b">>
_Ab == <<" ", "A", "b">>
a_b == <<"a", " ", "b">>

RecommendationBody(title, fiction_type, tags) ==
    [title |-> title, short_description |-> title, opinion |-> title,
     fiction_type |-> fiction_type, tags |-> tags]

NoDataBody == RecommendationBody(Unset, Unset, Unset)

CreateBodies ==
    {RecommendationBody(Some("t1"), Some(film), Some(<<ab>>)),
     RecommendationBody(Some("t1"), Some(film), Some(<<ab, _Ab>>)),
     RecommendationBody(Some("t1"), Some(fi), Some(<<ab>>)),
     RecommendationBody(Unset, Some(film), Some(<<ab>>)),
     RecommendationBody(Some("t1"), Some(film), Some(<<>>)),
     NoBody}

UpdateBodies ==
    {NoDataBody, NoBody,
     RecommendationBody(Some(""), Unset, Unset),
     RecommendationBody(Unset, Unset, Some(<<>>)),
     RecommendationBody(Some("t2"), Unset, Unset),
     RecommendationBody(Unset, Some(fi), Unset),
     RecommendationBody(Unset, Some(Film_), Some(<<_Ab, ab>>)),
     RecommendationBody(Unset, Unset, Some(<<a_b, a_b>>))}

DedupCreateBodies ==
    {RecommendationBody(Some("t1"), Some(film), Some(<<ab>>)),
     RecommendationBody(Some("t1"), Some(Film_), Some(<<_Ab>>)),
     RecommendationBody(Some("t1"), Some(film), Some(<<ab, _Ab>>)),
     RecommendationBody(Some("t1"), Some(a_b_), Some(<<a_b, ab>>)),
     RecommendationBody(Some("t1"), Some(fi), Some(<<ab>>))}

DedupUpdateBodies ==
    {NoDataBody,
     RecommendationBody(Some(""), Unset, Unset),
     RecommendationBody(Unset, Some(Film_), Unset),
     RecommendationBody(Unset, Some(a_b_), Some(<<a_b>>)),
     RecommendationBody(Unset, Some(fi), Some(<<a_b>>)),
     RecommendationBody(Unset, Unset, Some(<<_Ab>>)),
     RecommendationBody(Unset, Unset, Some(<<_Ab, ab>>))}

RaceCreateBodies ==
    {RecommendationBody(Some("t1"), Some(film), Some(<<ab>>)),
     RecommendationBody(Some("t1"), Some(Film_), Some(<<a_b>>))}

RaceUpdateBodies ==
    {RecommendationBody(Unset, Unset, Some(<<_Ab>>)),
     RecommendationBody(Unset, Some(a_b_), Unset)}

CommentBodies ==
    {[content |-> Some("c1")], [content |-> Some("")], [content |-> Unset], NoBody}

ReactionBodies == {[is_positive |-> Some(TRUE)], [is_positive |-> Some(FALSE)],
                   [is_positive |-> Unset], NoBody}

\* several labels of the list have the same canonical name
Collide(tags) ==
    \E i, j \in 1..Len(tags) : i < j /\ TagName(tags[i]) = TagName(tags[j])

------------------------------------------------------------------------------
(* The sequential system: one request at a time, each handled whole. *)

NoNorm == [kind |-> "none", raw |-> <<>>, out |-> <<>>, done |-> TRUE]

NoRequest == [op |-> "none", status |-> 0, hdr |-> ""]

\* the user table, the clock and the token the client holds, before any
\* registration
NoAuth == [user |-> {}, seq |-> 0, now |-> 0, held |-> Unset]

Procs == {1, 2}

Idle == [p \in Procs |-> <<>>]

Init ==
    /\ db = EmptyDb
    /\ inflight = Idle
    /\ last = NoRequest
    /\ norm = NoNorm
    /\ auth = NoAuth

\* the response to the last request is sent: the next request can be taken
Ready == last = NoRequest

\* a request is taken and answered with the result res of its handler
Answer(op, res) ==
    /\ Ready
    /\ db' = res.db
    /\ last' = [op |-> op, status |-> res.status, hdr |-> res.hdr]
    /\ UNCHANGED <<inflight, norm, auth>>

\* the response to the last request is sent
Respond ==
    /\ ~Ready
    /\ last' = NoRequest
    /\ UNCHANGED <<db, inflight, norm, auth>>

\* the rows created so far in the tables of owned resources
Rows(d) == d.seq.recommendation + d.seq.comment + d.seq.reaction

\* room bounds the rows the model creates
PostRecommendation(token, data, room) ==
    LET res == post_recommendation(db, token, data)
    IN  /\ res.status = 201 => room
        /\ Answer("post_recommendation", res)

UpdateRecommendation(token, rid, data) ==
    Answer("update_recommendation", update_recommendation(db, token, rid, data))

DeleteRecommendation_(token, rid) ==
    Answer("delete_recommendation", delete_recommendation(db, token, rid))

PostComment(token, rid, data) ==
    LET res == post_comment(db, token, rid, data)
    IN  /\ res.status = 201 => Rows(db) < MaxRows
        /\ Answer("post_comment", res)

UpdateComment(token, rid, kid, data) ==
    Answer("update_comment", update_comment(db, token, rid, kid, data))

DeleteComment(token, rid, kid) ==
    Answer("delete_comment", delete_comment(db, token, rid, kid))

PostReaction(token, rid, data) ==
    LET res == post_reaction(db, token, rid, data)
    IN  /\ res.status = 201 => Rows(db) < MaxRows
        /\ Answer("post_reaction", res)

UpdateReaction(token, rid, kid, data) ==
    Answer("update_reaction", update_reaction(db, token, rid, kid, data))

DeleteReaction(token, rid, kid) ==
    Answer("delete_reaction", delete_reaction(db, token, rid, kid))

\* the ids a request may address
RecommendationIds == 1..MaxRows
DedupRecommendationIds == 1..MaxDedupRecommendations
RaceRecommendationIds == 1..MaxRaceRecommendations
CommentIds == 1..MaxRows
ReactionIds == 1..MaxRows

Next ==
    \/ \E token \in Tokens, data \in CreateBodies :
          PostRecommendation(token, data, Rows(db) < MaxRows)
    \/ \E token \in Tokens, rid \in RecommendationIds, data \in UpdateBodies :
          UpdateRecommendation(token, rid, data)
    \/ \E token \in Tokens, rid \in RecommendationIds : DeleteRecommendation_(token, rid)
    \/ \E token \in Tokens, rid \in RecommendationIds, data \in CommentBodies :
          PostComment(token, rid, data)
    \/ \E token \in Tokens, rid \in RecommendationIds, kid \in CommentIds,
          data \in CommentBodies : UpdateComment(token, rid, kid, data)
    \/ \E token \in Tokens, rid \in RecommendationIds, kid \in CommentIds :
          DeleteComment(token, rid, kid)
    \/ \E token \in Tokens, rid \in RecommendationIds, data \in ReactionBodies :
          PostReaction(token, rid, data)
    \/ \E token \in Tokens, rid \in RecommendationIds, kid \in ReactionIds,
          data \in ReactionBodies : UpdateReaction(token, rid, kid, data)
    \/ \E token \in Tokens, rid \in RecommendationIds, kid \in ReactionIds :
          DeleteReaction(token, rid, kid)
    \/ Respond

Spec == Init /\ [][Next]_vars

------------------------------------------------------------------------------
(* The sequential system restricted to the recommendation handlers, with   *)
(* more labels.                                                            *)

\* no token, the token of one identity, the token of another
DedupTokens == {0, 1, 2}

NextDedup ==
    \/ \E token \in DedupTokens, data \in DedupCreateBodies :
          PostRecommendation(token, data,
                             db.seq.recommendation < MaxDedupRecommendations)
    \/ \E token \in DedupTokens, rid \in DedupRecommendationIds,
          data \in DedupUpdateBodies : UpdateRecommendation(token, rid, data)
    \/ \E token \in DedupTokens, rid \in DedupRecommendationIds :
          DeleteRecommendation_(token, rid)
    \/ Respond

SpecDedup == Init /\ [][NextDedup]_vars

------------------------------------------------------------------------------
(* Concurrent requests: each process runs one request at a time; a create  *)
(* or update of a recommendation reads (checks and deduplicator lookups)    *)
(* in one step and commits in a later one.                                  *)

RaceTokens == {0, 1}

Pending(op, u) == <<[op |-> op, uow |-> u]>>

BeginPostRecommendation(p, token, data) ==
    LET check == post_recommendation_check(db, token, data)
    IN  /\ inflight[p] = <<>>
        /\ IF check # 0
           THEN /\ last' = [op |-> "post_recommendation", status |-> check,
                            hdr |-> Response(db, check).hdr]
                /\ UNCHANGED <<db, inflight, norm, auth>>
           ELSE /\ inflight' = [inflight EXCEPT ![p] =
                       Pending("post_recommendation",
                               post_recommendation_uow(db, get_current_user(token), data))]
                /\ UNCHANGED <<db, last, norm, auth>>

BeginUpdateRecommendation(p, token, rid, data) ==
    LET check == update_recommendation_check(db, token, rid, data)
    IN  /\ inflight[p] = <<>>
        /\ IF check # 0
           THEN /\ last' = [op |-> "update_recommendation", status |-> check,
                            hdr |-> Response(db, check).hdr]
                /\ UNCHANGED <<db, inflight, norm, auth>>
           ELSE /\ inflight' = [inflight EXCEPT ![p] =
                       Pending("update_recommendation",
                               update_recommendation_uow(db, rid, data))]
                /\ UNCHANGED <<db, last, norm, auth>>

\* session.commit() of the pending request of p
Commit(p, sane_rowcount) ==
    /\ inflight[p] # <<>>
    /\ LET req == Val(inflight[p])
           f == Flush(db, req.uow, sane_rowcount)
           status == IF ~f.ok THEN 500
                     ELSE IF req.op = "post_recommendation" THEN 201 ELSE 200
       IN  /\ status = 201 => db.seq.recommendation < MaxRaceRecommendations
           /\ db' = f.db
           /\ last' = [op |-> req.op, status |-> status, hdr |-> ""]
    /\ inflight' = [inflight EXCEPT ![p] = <<>>]
    /\ UNCHANGED <<norm, auth>>

NextRace ==
    \/ \E p \in Procs, token \in RaceTokens, data \in RaceCreateBodies :
          BeginPostRecommendation(p, token, data)
    \/ \E p \in Procs, token \in RaceTokens, rid \in RaceRecommendationIds,
          data \in RaceUpdateBodies : BeginUpdateRecommendation(p, token, rid, data)
    \/ \E p \in Procs, sane_rowcount \in BOOLEAN : Commit(p, sane_rowcount)

SpecRace == Init /\ [][NextRace]_vars

------------------------------------------------------------------------------
(* The sequential system with several recommendations that have comments   *)
(* and reactions, and with the handlers that read one resource.            *)

ChildIds == 1..MaxChildRows

ChildCreateBody == RecommendationBody(Some("t1"), Some(film), Some(<<ab>>))

\* a request on the path /recommendations/{rid}[/comments|reactions[/{kid}]]
\* (kid 0: the path names no comment or reaction) is taken and answered
\* with the result res of its handler; room bounds the rows the model creates
AnswerAt(op, rid, kid, res, room) ==
    /\ Ready
    /\ res.status = 201 => room
    /\ db' = res.db
    /\ last' = [op |-> op, status |-> res.status, hdr |-> res.hdr,
                detail |-> res.detail, rid |-> rid, kid |-> kid]
    /\ UNCHANGED <<inflight, norm, auth>>

PostRecommendationAt(token) ==
    AnswerAt("post_recommendation", 0, 0,
             post_recommendation(db, token, ChildCreateBody),
             Rows(db) < MaxChildRows)

UpdateRecommendationAt(token, rid) ==
    AnswerAt("update_recommendation", rid, 0,
             update_recommendation(db, token, rid,
                                   RecommendationBody(Some("t2"), Unset, Unset)),
             TRUE)

GetRecommendation(rid) ==
    AnswerAt("get_recommendation", rid, 0, get_recommendation(db, rid), TRUE)

DeleteRecommendationAt(token, rid) ==
    AnswerAt("delete_recommendation", rid, 0,
             delete_recommendation(db, token, rid), TRUE)

PostCommentAt(token, rid) ==
    AnswerAt("post_comment", rid, 0,
             post_comment(db, token, rid, [content |-> Some("c1")]),
             Rows(db) < MaxChildRows)

GetComment(rid, kid) ==
    AnswerAt("get_comment", rid, kid, get_comment(db, rid, kid), TRUE)

UpdateCommentAt(token, rid, kid) ==
    AnswerAt("update_comment", rid, kid,
             update_comment(db, token, rid, kid, [content |-> Some("c2")]), TRUE)

DeleteCommentAt(token, rid, kid) ==
    AnswerAt("delete_comment", rid, kid, delete_comment(db, token, rid, kid), TRUE)

PostReactionAt(token, rid) ==
    AnswerAt("post_reaction", rid, 0,
             post_reaction(db, token, rid, [is_positive |-> Some(TRUE)]),
             Rows(db) < MaxChildRows)

GetReaction(rid, kid) ==
    AnswerAt("get_reaction", rid, kid, get_reaction(db, rid, kid), TRUE)

UpdateReactionAt(token, rid, kid) ==
    AnswerAt("update_reaction", rid, kid,
             update_reaction(db, token, rid, kid, [is_positive |-> Some(FALSE)]),
             TRUE)

DeleteReactionAt(token, rid, kid) ==
    AnswerAt("delete_reaction", rid, kid, delete_reaction(db, token, rid, kid), TRUE)

NextChild ==
    \/ \E token \in DedupTokens : PostRecommendationAt(token)
    \/ \E rid \in ChildIds : GetRecommendation(rid)
    \/ \E token \in DedupTokens, rid \in ChildIds : UpdateRecommendationAt(token, rid)
    \/ \E token \in DedupTokens, rid \in ChildIds : DeleteRecommendationAt(token, rid)
    \/ \E token \in DedupTokens, rid \in ChildIds : PostCommentAt(token, rid)
    \/ \E rid \in ChildIds, kid \in ChildIds : GetComment(rid, kid)
    \/ \E token \in DedupTokens, rid \in ChildIds, kid \in ChildIds :
          UpdateCommentAt(token, rid, kid)
    \/ \E token \in DedupTokens, rid \in ChildIds, kid \in ChildIds :
          DeleteCommentAt(token, rid, kid)
    \/ \E token \in DedupTokens, rid \in ChildIds : PostReactionAt(token, rid)
    \/ \E rid \in ChildIds, kid \in ChildIds : GetReaction(rid, kid)
    \/ \E token \in DedupTokens, rid \in ChildIds, kid \in ChildIds :
          UpdateReactionAt(token, rid, kid)
    \/ \E token \in DedupTokens, rid \in ChildIds, kid \in ChildIds :
          DeleteReactionAt(token, rid, kid)
    \/ Respond

SpecChild == Init /\ [][NextChild]_vars

------------------------------------------------------------------------------
(* Concurrent requests on the comments and reactions of a recommendation:  *)
(* a post_comment or post_reaction runs its checks in one step and commits  *)
(* its insert in a later one; creating and deleting a recommendation are    *)
(* single steps.  The storage engine is the one DATABASE_URL names: it      *)
(* enforces foreign keys (foreign_keys TRUE) or, like SQLite without the    *)
(* foreign_keys pragma, does not.                                           *)

InitChildRace ==
    /\ db \in {EmptyDb @@ [foreign_keys |-> fk] : fk \in BOOLEAN}
    /\ inflight = Idle
    /\ last = NoRequest
    /\ norm = NoNorm
    /\ auth = NoAuth

\* a request handled in one step
AnswerNow(op, res) ==
    /\ db' = res.db
    /\ last' = [op |-> op, status |-> res.status, hdr |-> res.hdr]
    /\ UNCHANGED <<inflight, norm, auth>>

PostRecommendationNow(token, data) ==
    LET res == post_recommendation(db, token, data)
    IN  /\ res.status = 201 => db.seq.recommendation < MaxRaceRecommendations
        /\ AnswerNow("post_recommendation", res)

DeleteRecommendationNow(token, rid) ==
    AnswerNow("delete_recommendation", delete_recommendation(db, token, rid))

\* the checks and the construction of the row: everything of the sequential
\* handler but the insert
BeginPost(p, op, table, res) ==
    /\ inflight[p] = <<>>
    /\ IF res.status # 201
       THEN /\ last' = [op |-> op, status |-> res.status, hdr |-> res.hdr]
            /\ UNCHANGED <<db, inflight, norm, auth>>
       ELSE /\ inflight' = [inflight EXCEPT ![p] =
                   Pending(op, [table |-> table,
                                row |-> CHOOSE c \in res.db[table] : c \notin db[table]])]
            /\ UNCHANGED <<db, last, norm, auth>>

BeginPostComment(p, token, rid, data) ==
    BeginPost(p, "post_comment", "comment", post_comment(db, token, rid, data))

BeginPostReaction(p, token, rid, data) ==
    BeginPost(p, "post_reaction", "reaction", post_reaction(db, token, rid, data))

\* the INSERT of a comment or reaction at commit: the engine checks the
\* unique constraint of the reactions and, when it enforces them, the
\* foreign key to the recommendation; a violation ends the request in 500
InsertChild(d, table, row) ==
    LET unique_violation ==
            /\ table = "reaction"
            /\ UniqueViolation({<<c.user_id, c.recommendation_id>> : c \in d.reaction},
                               <<<<row.user_id, row.recommendation_id>>>>)
        foreign_key_violation ==
            d.foreign_keys /\ get_recommendation_by_id(d, row.recommendation_id) = {}
        id == d.seq[table] + 1
    IN  IF unique_violation \/ foreign_key_violation THEN Response(d, 500)
        ELSE Response([d EXCEPT ![table] = @ \cup {[row EXCEPT !.id = id]},
                                !.seq[table] = id], 201)

CommitChild(p) ==
    /\ inflight[p] # <<>>
    /\ LET req == Val(inflight[p])
           res == InsertChild(db, req.uow.table, req.uow.row)
       IN  /\ res.status = 201 => db.seq.comment + db.seq.reaction < MaxRows
           /\ db' = res.db
           /\ last' = [op |-> req.op, status |-> res.status, hdr |-> res.hdr]
    /\ inflight' = [inflight EXCEPT ![p] = <<>>]
    /\ UNCHANGED <<norm, auth>>

NextChildRace ==
    \/ \E token \in RaceTokens : PostRecommendationNow(token, ChildCreateBody)
    \/ \E token \in RaceTokens, rid \in RaceRecommendationIds :
          DeleteRecommendationNow(token, rid)
    \/ \E p \in Procs, token \in RaceTokens, rid \in RaceRecommendationIds :
          BeginPostComment(p, token, rid, [content |-> Some("c1")])
    \/ \E p \in Procs, token \in RaceTokens, rid \in RaceRecommendationIds :
          BeginPostReaction(p, token, rid, [is_positive |-> Some(TRUE)])
    \/ \E p \in Procs : CommitChild(p)

SpecChildRace == InitChildRace /\ [][NextChildRace]_vars

------------------------------------------------------------------------------
(* The canonical name of a label. *)

Chars == {"a", "A", SP}

Strings == UNION {[1..n -> Chars] : n \in 0..MaxLen}

InitNorm ==
    /\ db = EmptyDb
    /\ inflight = Idle
    /\ last = NoRequest
    /\ auth = NoAuth
    /\ norm \in {[kind |-> k, raw |-> s, out |-> <<>>, done |-> FALSE] :
                    k \in {"tag", "fiction_type"}, s \in Strings}

Normalize ==
    /\ ~norm.done
    /\ norm' = [norm EXCEPT
                   !.out = IF norm.kind = "tag" THEN TagName(norm.raw)
                           ELSE FictionTypeName(norm.raw),
                   !.done = TRUE]
    /\ UNCHANGED <<db, inflight, last, auth>>

SpecNorm == InitNorm /\ [][Normalize]_vars

------------------------------------------------------------------------------
(* Identities, passwords and session tokens: registration, login, token    *)
(* verification and the profile endpoints.                                 *)

UsernameMinLength == 5
UsernameMaxLength == 255
PasswordMinLength == 8

\* the lifetime of a token, in ticks of the clock
TokenTTL == 1

SecretKey == "secret"
OtherKey == "other"

\* an address is the sequence of its parts; the pattern of the validator is
\* local "@" domain "." top-level domain of 2 to 7 letters
email_valid(email) ==
    /\ Len(email) = 5
    /\ email[1] # "" /\ email[2] = "@" /\ email[3] # "" /\ email[4] = "."
    /\ Len(email[5]) >= 2 /\ Len(email[5]) <= 7

Email(local, tld) == <<local, "@", "x", ".", tld>>

UserCreateValid(data) ==
    /\ Len(data.username) >= UsernameMinLength
    /\ Len(data.username) <= UsernameMaxLength
    /\ email_valid(data.email)
    /\ Len(data.password) >= PasswordMinLength

UserUpdateValid(data) ==
    /\ IsSet(data.username) =>
          /\ Len(Val(data.username)) >= UsernameMinLength
          /\ Len(Val(data.username)) <= UsernameMaxLength
    /\ IsSet(data.email) => email_valid(Val(data.email))

\* the fields of an identity that a response shows
UserRead(user) == [id |-> user.id, username |-> user.username, email |-> user.email]

\* a salted one-way hash: the hash embeds its salt, the digest depends on both
get_password_hash(password, salt) ==
    [salt |-> salt, digest |-> <<"digest", salt, password>>]

verify_password(plain_password, hashed_password) ==
    hashed_password.digest = <<"digest", hashed_password.salt, plain_password>>

get_user_with_username(a, username) == {u \in a.user : u.username = username}

get_user_with_email(a, email) == {u \in a.user : u.email = email}

get_user_by_id(a, id) == {u \in a.user : u.id = id}

AuthResponse(a, status, body) ==
    [auth |-> a, status |-> status,
     hdr |-> IF status = 401 THEN "Bearer" ELSE "", body |-> body]

\* a registration that stores the new password on the identity that has the
\* username
register_rehash(a, data, salt) ==
    LET new_user == [id |-> a.seq + 1, username |-> data.username,
                     email |-> data.email,
                     hashed_password |-> get_password_hash(data.password, salt)]
        rehashed == {[u EXCEPT !.hashed_password =
                         IF u.username = data.username
                         THEN get_password_hash(data.password, salt) ELSE @] :
                        u \in a.user}
    IN  IF ~UserCreateValid(data) THEN AuthResponse(a, 422, "validation error")
        ELSE IF get_user_with_username(a, data.username) # {}
             THEN AuthResponse([a EXCEPT !.user = rehashed], 409, "Duplicate username")
        ELSE IF get_user_with_email(a, data.email) # {}
             THEN AuthResponse(a, 409, "Duplicate email")
        ELSE AuthResponse([a EXCEPT !.user = @ \cup {new_user}, !.seq = @ + 1],
                          201, UserRead(new_user))

register(a, data, salt) ==
    LET new_user == [id |-> a.seq + 1, username |-> data.username,
                     email |-> data.email,
                     hashed_password |-> get_password_hash(data.password, salt)]
    IN  IF ~UserCreateValid(data) THEN AuthResponse(a, 422, "validation error")
        ELSE IF get_user_with_username(a, data.username) # {}
             THEN AuthResponse(a, 409, "Duplicate username")
        ELSE IF get_user_with_email(a, data.email) # {}
             THEN AuthResponse(a, 409, "Duplicate email")
        ELSE AuthResponse([a EXCEPT !.user = @ \cup {new_user}, !.seq = @ + 1],
                          201, UserRead(new_user))

\* the id of the identity with this username and password, 0 for none
authenticate_user(a, username, password) ==
    LET user == get_user_with_username(a, username)
    IN  IF user = {} THEN 0
        ELSE IF ~verify_password(password, First(user).hashed_password) THEN 0
        ELSE First(user).id

Token(kind, sub, iat, key) ==
    [kind |-> kind, sub |-> sub, iat |-> iat, exp |-> iat + TokenTTL, key |-> key]

\* a request without an Authorization header
NoToken == Token("none", 0, 0, "")

\* a bearer string that is not a token
Garbage == Token("garbage", 0, 0, "")

\* a token whose subject is the first identity, whoever logged in
create_access_token_first_identity(sub, now) == Token("jwt", 1, now, SecretKey)

create_access_token(sub, now) == Token("jwt", sub, now, SecretKey)

\* a login that tells an unknown username from a wrong password
login_user_not_found(a, form_data) ==
    LET id == authenticate_user(a, form_data.username, form_data.password)
    IN  IF get_user_with_username(a, form_data.username) = {}
        THEN AuthResponse(a, 401, "User not found")
        ELSE IF id = 0 THEN AuthResponse(a, 401, "Incorrect username or password")
        ELSE AuthResponse(a, 200,
                          [access_token |-> create_access_token(id, a.now),
                           token_type |-> "bearer"])

login(a, form_data) ==
    LET id == authenticate_user(a, form_data.username, form_data.password)
    IN  IF id = 0 THEN AuthResponse(a, 401, "Incorrect username or password")
        ELSE AuthResponse(a, 200,
                          [access_token |-> create_access_token(id, a.now),
                           token_type |-> "bearer"])

Wellformed(token) == token.kind = "jwt"

\* a check that accepts a signature made with any key
SignatureValid_any_key(token) == token.key \in {SecretKey, OtherKey}

SignatureValid(token) == token.key = SecretKey

\* a check that never finds a token expired
Expired_never(token, now) == FALSE

Expired(token, now) == ~(now <= token.exp)

\* the id of the identity a bearer token resolves to, 0 for none
verify_token(a, token) ==
    IF ~Wellformed(token) THEN 0
    ELSE IF ~SignatureValid(token) THEN 0
    ELSE IF Expired(token, a.now) THEN 0
    ELSE IF get_user_by_id(a, token.sub) = {} THEN 0
    ELSE token.sub

read_users_me(a, token) ==
    LET id == verify_token(a, token)
    IN  IF id = 0 THEN AuthResponse(a, 401, "Could not validate credentials")
        ELSE AuthResponse(a, 200, UserRead(First(get_user_by_id(a, id))))

\* update_users_me without the lookups of the username and the email
update_users_me_no_lookup(a, token, data, own_conflicts) ==
    LET id == verify_token(a, token)
        old == First(get_user_by_id(a, id))
        new == [old EXCEPT
                   !.username = IF IsSet(data.username) THEN Val(data.username) ELSE @,
                   !.email = IF IsSet(data.email) THEN Val(data.email) ELSE @]
    IN  IF id = 0 THEN AuthResponse(a, 401, "Could not validate credentials")
        ELSE IF ~UserUpdateValid(data) THEN AuthResponse(a, 422, "validation error")
        ELSE IF NoData(data) THEN AuthResponse(a, 400, "No data provided")
        ELSE AuthResponse([a EXCEPT !.user = (@ \ {old}) \cup {new}],
                          200, UserRead(new))

\* own_conflicts: whether the lookup of a duplicate also refuses the caller's
\* own current username or email
update_users_me(a, token, data, own_conflicts) ==
    LET id == verify_token(a, token)
        old == First(get_user_by_id(a, id))
        taken(rows) == \E u \in rows : u.id # id \/ own_conflicts
        new == [old EXCEPT
                   !.username = IF IsSet(data.username) THEN Val(data.username) ELSE @,
                   !.email = IF IsSet(data.email) THEN Val(data.email) ELSE @]
    IN  IF id = 0 THEN AuthResponse(a, 401, "Could not validate credentials")
        ELSE IF ~UserUpdateValid(data) THEN AuthResponse(a, 422, "validation error")
        ELSE IF NoData(data) THEN AuthResponse(a, 400, "No data provided")
        ELSE IF IsSet(data.username)
                /\ taken(get_user_with_username(a, Val(data.username)))
             THEN AuthResponse(a, 409, "Duplicate username")
        ELSE IF IsSet(data.email) /\ taken(get_user_with_email(a, Val(data.email)))
             THEN AuthResponse(a, 409, "Duplicate email")
        ELSE AuthResponse([a EXCEPT !.user = (@ \ {old}) \cup {new}],
                          200, UserRead(new))

------------------------------------------------------------------------------
(* Inputs of the authentication requests. *)

Passwords == {"password1", "password2"}

RegisterBody(username, email, password) ==
    [username |-> username, email |-> email, password |-> password]

RegisterBodies ==
    {RegisterBody("alice", Email("a", "com"), "password1"),
     RegisterBody("bobby", Email("b", "com"), "password2"),
     RegisterBody("alice", Email("c", "com"), "password2"),
     RegisterBody("carol", Email("a", "com"), "password2"),
     RegisterBody("bob", Email("b", "com"), "password1"),
     RegisterBody("carol", <<"invalid">>, "password1"),
     RegisterBody("carol", Email("c", "c"), "password1"),
     RegisterBody("carol", Email("c", "com"), "short")}

LoginForms ==
    {[username |-> u, password |-> p] :
        u \in {"alice", "bobby", "no_one"}, p \in Passwords}

UserUpdateBody(username, email) == [username |-> username, email |-> email]

UserUpdateBodies ==
    {UserUpdateBody(Unset, Unset),
     UserUpdateBody(Some("alice"), Unset),
     UserUpdateBody(Some("carol"), Unset),
     UserUpdateBody(Unset, Some(Email("b", "com"))),
     UserUpdateBody(Some("bobby"), Some(Email("c", "com"))),
     UserUpdateBody(Some("bob"), Unset),
     UserUpdateBody(Unset, Some(<<"invalid">>))}

\* the bearer tokens a client can present: none, a string that is no token,
\* the token of its last login, that token signed with another key, and a
\* token for an identity that is not stored
Presented(a) ==
    {NoToken, Garbage, create_access_token(a.seq + 1, a.now)}
       \cup (IF IsSet(a.held)
             THEN {Val(a.held).token, [Val(a.held).token EXCEPT !.key = OtherKey]}
             ELSE {})

\* every bearer token, whoever made it
AllTokens ==
    {NoToken, Garbage}
       \cup {Token("jwt", sub, iat, key) :
                sub \in 1..(NumUsers + 1), iat \in 0..MaxTime,
                key \in {SecretKey, OtherKey}}

AuthCreateBody == RecommendationBody(Some("t1"), Some(film), Some(<<ab>>))

------------------------------------------------------------------------------
(* The authentication system: one request at a time, and a clock. *)

AnswerAuth(op, token, req, res) ==
    /\ Ready
    /\ auth' = res.auth
    /\ last' = [op |-> op, status |-> res.status, hdr |-> res.hdr,
                body |-> res.body, token |-> token, req |-> req]
    /\ UNCHANGED <<db, inflight, norm>>

\* the salt of a hash is fresh: the n-th stored hash has salt n
Register(data) ==
    LET res == register(auth, data, auth.seq + 1)
    IN  /\ res.status = 201 => auth.seq < NumUsers
        /\ AnswerAuth("register", NoToken, data, res)

\* the client keeps the token of a successful login and the id it logged in as
Login(form_data) ==
    LET res == login(auth, form_data)
        id == authenticate_user(auth, form_data.username, form_data.password)
        kept == IF res.status = 200
                THEN [res.auth EXCEPT
                         !.held = Some([token |-> res.body.access_token,
                                        user_id |-> id])]
                ELSE res.auth
    IN  AnswerAuth("login", NoToken, form_data, [res EXCEPT !.auth = kept])

ReadUsersMe(token) ==
    AnswerAuth("read_users_me", token, Unset, read_users_me(auth, token))

UpdateUsersMe(token, data, own_conflicts) ==
    AnswerAuth("update_users_me", token, data,
               update_users_me(auth, token, data, own_conflicts))

\* a protected resource request: the handler runs with the identity the
\* token resolves to
PostRecommendationWithToken(token, data) ==
    LET res == post_recommendation(db, verify_token(auth, token), data)
    IN  /\ Ready
        /\ res.status = 201 => db.seq.recommendation < MaxAuthRecommendations
        /\ db' = res.db
        /\ last' = [op |-> "post_recommendation", status |-> res.status,
                    hdr |-> res.hdr, body |-> "", token |-> token,
                    req |-> data]
        /\ UNCHANGED <<inflight, norm, auth>>

Tick ==
    /\ Ready
    /\ auth.now < MaxTime
    /\ auth' = [auth EXCEPT !.now = @ + 1]
    /\ UNCHANGED <<db, inflight, last, norm>>

NextAuth ==
    \/ \E data \in RegisterBodies : Register(data)
    \/ \E form_data \in LoginForms : Login(form_data)
    \/ \E token \in Presented(auth) : ReadUsersMe(token)
    \/ \E token \in Presented(auth), data \in UserUpdateBodies,
          own_conflicts \in BOOLEAN : UpdateUsersMe(token, data, own_conflicts)
    \/ \E token \in Presented(auth) : PostRecommendationWithToken(token, AuthCreateBody)
    \/ Tick
    \/ Respond

SpecAuth == Init /\ [][NextAuth]_vars

------------------------------------------------------------------------------
(* The creation of recommendations and comments while the clock advances.  *)
(* The process starts, and imports its modules, in the initial state.       *)

NextClock ==
    \/ \E token \in Tokens, data \in CreateBodies :
          PostRecommendation(token, data, Rows(db) < MaxRows)
    \/ \E token \in Tokens, rid \in RecommendationIds, data \in CommentBodies :
          PostComment(token, rid, data)
    \/ Tick
    \/ Respond

SpecClock == Init /\ [][NextClock]_vars

------------------------------------------------------------------------------
(* Properties of the ownership guard, checked under Spec. *)

ValidUpdateBodies == {b \in UpdateBodies : RecommendationUpdateValid(b)}
ValidCommentBodies == {b \in CommentBodies : CommentValid(b)}
ValidReactionBodies == {b \in ReactionBodies : ReactionValid(b)}

\* the response to a non-owner: 403 and nothing written
Refused(res) == res.status = 403 /\ res.db = db

\* C1: whenever a request is taken, an update or delete of an existing
\* recommendation, comment or reaction by an authenticated identity that is
\* not its owner ends in 403 and leaves the database as it was; the same
\* request by the owner is never refused: a delete ends in 204 and removes
\* the resource, an update of a comment or reaction ends in 200, an update of
\* a recommendation ends in 200, except that a body without data ends in 400
\* and a tag list with colliding labels may end in a failed commit.  Hence a
\* request succeeds only for the owner.
C1_OwnerOnly ==
    Ready => \A token \in Users :
       /\ \A r \in db.recommendation :
             /\ \A data \in ValidUpdateBodies :
                   LET res == update_recommendation(db, token, r.id, data)
                   IN  IF token = r.user_id
                       THEN \/ res.status = 200 /\ ~NoData(data)
                            \/ res.status = 400 /\ NoData(data) /\ res.db = db
                            \/ /\ res.status = 500 /\ res.db = db
                               /\ TruthySeq(data.tags) /\ Collide(Val(data.tags))
                       ELSE Refused(res)
             /\ LET res == delete_recommendation(db, token, r.id)
                IN  IF token = r.user_id
                    THEN res.status = 204 /\ get_recommendation_by_id(res.db, r.id) = {}
                    ELSE Refused(res)
       /\ \A c \in db.comment :
             /\ \A data \in ValidCommentBodies :
                   LET res == update_comment(db, token, c.recommendation_id, c.id, data)
                   IN  IF token = c.user_id
                       THEN /\ res.status = 200
                            /\ \E n \in res.db.comment : n.id = c.id /\ n.updated = 1
                       ELSE Refused(res)
             /\ LET res == delete_comment(db, token, c.recommendation_id, c.id)
                IN  IF token = c.user_id
                    THEN res.status = 204 /\ c \notin res.db.comment
                    ELSE Refused(res)
       /\ \A c \in db.reaction :
             /\ \A data \in ValidReactionBodies :
                   LET res == update_reaction(db, token, c.recommendation_id, c.id, data)
                   IN  IF token = c.user_id
                       THEN /\ res.status = 200
                            /\ \E n \in res.db.reaction :
                                  n.id = c.id /\ n.is_positive = Val(data.is_positive)
                       ELSE Refused(res)
             /\ LET res == delete_reaction(db, token, c.recommendation_id, c.id)
                IN  IF token = c.user_id
                    THEN res.status = 204 /\ c \notin res.db.reaction
                    ELSE Refused(res)

UpdateDeleteOps ==
    {"update_recommendation", "delete_recommendation", "update_comment",
     "delete_comment", "update_reaction", "delete_reaction"}

\* a non-owner has just been refused the delete of an existing comment
C1_Witness ==
    /\ last.op = "delete_comment" /\ last.status = 403
    /\ db.comment # {}

\* the response to a request on a missing resource: 404 (422 when the body
\* is invalid) and nothing written
NotFound(res, valid) ==
    /\ res.status = IF valid THEN 404 ELSE 422
    /\ res.db = db

\* C2: whenever a request is taken, an update or delete by any authenticated
\* identity that addresses a recommendation, comment or reaction that does
\* not exist ends in 404 (422 when its body is invalid), never in 403, and
\* writes nothing.
C2_ExistenceFirst ==
    Ready => \A token \in Users, rid \in RecommendationIds :
       LET norec == get_recommendation_by_id(db, rid) = {}
       IN  /\ norec =>
                /\ \A data \in UpdateBodies :
                      NotFound(update_recommendation(db, token, rid, data),
                               RecommendationUpdateValid(data))
                /\ NotFound(delete_recommendation(db, token, rid), TRUE)
           /\ \A kid \in CommentIds :
                (norec \/ \A c \in db.comment : c.id # kid) =>
                   /\ \A data \in CommentBodies :
                         NotFound(update_comment(db, token, rid, kid, data),
                                  CommentValid(data))
                   /\ NotFound(delete_comment(db, token, rid, kid), TRUE)
           /\ \A kid \in ReactionIds :
                (norec \/ \A c \in db.reaction : c.id # kid) =>
                   /\ \A data \in ReactionBodies :
                         NotFound(update_reaction(db, token, rid, kid, data),
                                  ReactionValid(data))
                   /\ NotFound(delete_reaction(db, token, rid, kid), TRUE)

\* an update of a reaction that does not exist, under a recommendation that
\* does, has just ended in 404
C2_Witness ==
    /\ last.op = "update_reaction" /\ last.status = 404
    /\ db.recommendation # {} /\ db.reaction = {}

\* the response to a request without a valid token
Unauthenticated(res) ==
    res.status = 401 /\ res.hdr = "Bearer" /\ res.db = db

\* C3: whenever a request is taken, every create, update or delete request
\* without a valid bearer token ends in 401 with WWW-Authenticate: Bearer
\* and writes nothing, whether or not the addressed resource exists and
\* whether or not the body is valid.
C3_Unauthenticated ==
    Ready => \A token \in Tokens \ Users :
       /\ \A data \in CreateBodies : Unauthenticated(post_recommendation(db, token, data))
       /\ \A rid \in RecommendationIds :
             /\ \A data \in UpdateBodies :
                   Unauthenticated(update_recommendation(db, token, rid, data))
             /\ Unauthenticated(delete_recommendation(db, token, rid))
             /\ \A data \in CommentBodies :
                   Unauthenticated(post_comment(db, token, rid, data))
             /\ \A data \in ReactionBodies :
                   Unauthenticated(post_reaction(db, token, rid, data))
             /\ \A kid \in CommentIds :
                   /\ \A data \in CommentBodies :
                         Unauthenticated(update_comment(db, token, rid, kid, data))
                   /\ Unauthenticated(delete_comment(db, token, rid, kid))
             /\ \A kid \in ReactionIds :
                   /\ \A data \in ReactionBodies :
                         Unauthenticated(update_reaction(db, token, rid, kid, data))
                   /\ Unauthenticated(delete_reaction(db, token, rid, kid))

\* a delete of a recommendation has just ended in 401 while no
\* recommendation exists
C3_Witness ==
    /\ last.op = "delete_recommendation" /\ last.status = 401 /\ last.hdr = "Bearer"
    /\ db.recommendation = {}

\* the rows of a table that a result adds
Created(table, res) == {y \in res.db[table] : \A x \in db[table] : x.id # y.id}

SameOwner(table) ==
    \A x \in db[table], y \in db'[table] : x.id = y.id => x.user_id = y.user_id

C10_SetAtCreation ==
    Ready => \A token \in Users :
       /\ \A data \in CreateBodies :
             \A y \in Created("recommendation", post_recommendation(db, token, data)) :
                y.user_id = token
       /\ \A rid \in RecommendationIds :
             /\ \A data \in CommentBodies :
                   \A y \in Created("comment", post_comment(db, token, rid, data)) :
                      y.user_id = token
             /\ \A data \in ReactionBodies :
                   \A y \in Created("reaction", post_reaction(db, token, rid, data)) :
                      y.user_id = token

\* C10: whenever a request is taken, a recommendation, comment or reaction
\* that it creates has the id of the requesting identity as its user_id, and
\* no step changes the user_id of a row that exists before and after it.
C10_OwnerImmutable ==
    /\ []C10_SetAtCreation
    /\ [][SameOwner("recommendation") /\ SameOwner("comment") /\ SameOwner("reaction")]_vars

\* a comment made by one identity on the recommendation of another has been
\* updated and the recommendation too
C10_Witness ==
    \E c \in db.comment, r \in db.recommendation :
       /\ c.recommendation_id = r.id /\ c.user_id # r.user_id
       /\ c.updated = 1 /\ r.updated = 1

------------------------------------------------------------------------------
(* Properties of the deduplicator, checked under SpecDedup, SpecRace and   *)
(* SpecNorm.                                                               *)

ValidDedupCreateBodies == {b \in DedupCreateBodies : RecommendationCreateValid(b)}
ValidDedupUpdateBodies == {b \in DedupUpdateBodies : RecommendationUpdateValid(b)}

TagRows(d, tag) == {t \in d.tag : t.name = TagName(tag)}
FictionTypeRows(d, fiction_type) ==
    {f \in d.fiction_type : f.name = FictionTypeName(fiction_type)}

\* every label of tags has exactly one row, linked to recommendation rid
OneRowEach(d, tags, rid) ==
    \A i \in 1..Len(tags) :
       /\ Cardinality(TagRows(d, tags[i])) = 1
       /\ \A t \in TagRows(d, tags[i]) : t.id \in TagsOf(d, rid)

\* C4: a create or update (by the owner) whose tag list holds several
\* labels with the same canonical name succeeds and leaves exactly one tag
\* row of that name, linked to the recommendation.
C4_CollapseDuplicates ==
    [][/\ \A token \in DedupTokens \ {0}, data \in ValidDedupCreateBodies :
             (/\ Collide(Val(data.tags))
              /\ db' = post_recommendation(db, token, data).db
              /\ last'.op = "post_recommendation"
              /\ last'.status = post_recommendation(db, token, data).status)
                => /\ last'.status = 201
                   /\ \A r \in db'.recommendation \ db.recommendation :
                         OneRowEach(db', Val(data.tags), r.id)
       /\ \A r \in db.recommendation, data \in ValidDedupUpdateBodies :
             (/\ TruthySeq(data.tags) /\ Collide(Val(data.tags))
              /\ db' = update_recommendation(db, r.user_id, r.id, data).db
              /\ last'.op = "update_recommendation"
              /\ last'.status = update_recommendation(db, r.user_id, r.id, data).status)
                => /\ last'.status = 200
                   /\ OneRowEach(db', Val(data.tags), r.id)]_vars

\* the pending request of a process lost a race: a row it constructed as new
\* has meanwhile been committed by another request
Lost(u) ==
    \/ /\ IsSet(u.tags)
       /\ \E i \in 1..Len(Val(u.tags)) :
             /\ IsTransient(Val(u.tags)[i])
             /\ \E t \in db.tag : t.name = Val(u.tags)[i].name
    \/ /\ IsSet(u.fiction_type) /\ IsTransient(Val(u.fiction_type))
       /\ \E f \in db.fiction_type : f.name = Val(u.fiction_type).name

\* C5: a request that lost the race for a new canonical name completes its
\* commit successfully (200 or 201), never with a write failure.
C5_LoserSucceeds ==
    [][\A p \in Procs :
          (inflight[p] # <<>> /\ Lost(Val(inflight[p]).uow) /\ inflight'[p] = <<>>)
             => last'.status \in {200, 201}]_vars

\* C6: in every reachable state no two tag rows have the same name and no
\* two fiction-type rows have the same name.
C6_UniqueNames ==
    /\ \A t, u \in db.tag : t.name = u.name => t = u
    /\ \A f, g \in db.fiction_type : f.name = g.name => f = g

\* a request is pending that lost the race for a name to a committed one
C6_Witness ==
    \E p \in Procs : inflight[p] # <<>> /\ Lost(Val(inflight[p]).uow)

\* C7: whenever a request is taken (one request at a time), a creation whose
\* tag labels and fiction-type name all have rows already, the labels having
\* different canonical names, ends in 201 without adding a tag or
\* fiction-type row; and after any creation that ends in 201 every supplied
\* label has exactly one row, linked to the new recommendation, the
\* fiction-type name has exactly one row, referenced by it, the rows that
\* existed are the ones used, and the links of the other recommendations
\* are as before.
C7_Reuse ==
    Ready => \A token \in DedupTokens \ {0}, data \in ValidDedupCreateBodies :
       LET res == post_recommendation(db, token, data)
           tags == Val(data.tags)
           fiction_type == Val(data.fiction_type)
       IN  /\ ( /\ ~Collide(tags)
                /\ \A i \in 1..Len(tags) : TagRows(db, tags[i]) # {}
                /\ FictionTypeRows(db, fiction_type) # {} )
              => /\ res.status = 201
                 /\ res.db.tag = db.tag
                 /\ res.db.fiction_type = db.fiction_type
           /\ res.status = 201 =>
                 /\ Created("recommendation", res) # {}
                 /\ \A r \in Created("recommendation", res) :
                       /\ OneRowEach(res.db, tags, r.id)
                       /\ Cardinality(FictionTypeRows(res.db, fiction_type)) = 1
                       /\ \A f \in FictionTypeRows(res.db, fiction_type) :
                             r.fiction_type_id = f.id
                 /\ db.tag \subseteq res.db.tag
                 /\ db.fiction_type \subseteq res.db.fiction_type
                 /\ db.tagged_recommendations \subseteq res.db.tagged_recommendations

\* two recommendations created one after the other share their tag row and
\* their fiction-type row
C7_Witness ==
    /\ last.op = "post_recommendation" /\ last.status = 201
    /\ \E r, q \in db.recommendation :
          /\ r.id # q.id
          /\ r.fiction_type_id = q.fiction_type_id
          /\ TagsOf(db, r.id) \cap TagsOf(db, q.id) # {}

\* the reference normalization: trim, collapse each run of internal
\* whitespace to one separator, lower-case
RECURSIVE Collapse(_, _)
Collapse(s, sep) ==
    IF s = <<>> THEN <<>>
    ELSE IF Head(s) = SP THEN <<sep>> \o Collapse(LStrip(Tail(s)), sep)
    ELSE <<Head(s)>> \o Collapse(Tail(s), sep)

RefNormalize(s, sep) == Lower(Collapse(Strip(s), sep))

\* C8: the canonical name computed for a tag label or a fiction-type name
\* is its reference normalization.
C8_CanonicalName ==
    norm.done =>
       norm.out = RefNormalize(norm.raw, IF norm.kind = "tag" THEN "-" ELSE SP)

\* what a result may add to the tag and fiction-type tables: nothing unless
\* it is the success of a create or update, and then only rows that the
\* recommendations in rids reference
RowsWithRecommendation(res, rids) ==
    /\ res.status \notin {200, 201} =>
          /\ res.db.tag = db.tag
          /\ res.db.fiction_type = db.fiction_type
    /\ \A t \in res.db.tag \ db.tag :
          \E rid \in rids : t.id \in TagsOf(res.db, rid)
    /\ \A f \in res.db.fiction_type \ db.fiction_type :
          \E r \in res.db.recommendation : r.id \in rids /\ r.fiction_type_id = f.id

\* C9: whenever a request is taken, a request to a recommendation handler
\* that does not end in 200 or 201 leaves the tag and fiction-type tables as they
\* were, and a row that a request adds to them is referenced by the
\* recommendation that the request created or updated.
C9_RowsOnlyWithRecommendation ==
    Ready => \A token \in DedupTokens :
       /\ \A data \in DedupCreateBodies :
             LET res == post_recommendation(db, token, data)
             IN  RowsWithRecommendation(res,
                     {r.id : r \in Created("recommendation", res)})
       /\ \A rid \in DedupRecommendationIds :
             /\ \A data \in DedupUpdateBodies :
                   RowsWithRecommendation(
                       update_recommendation(db, token, rid, data), {rid})
             /\ RowsWithRecommendation(delete_recommendation(db, token, rid), {})

\* a non-owner's update that named a new tag and fiction type has just ended
\* in 403 and no row of those names exists
C9_Witness ==
    /\ last.op = "update_recommendation" /\ last.status = 403
    /\ TagRows(db, a_b) = {} /\ FictionTypeRows(db, a_b_) = {}
    /\ db.tag # {}

------------------------------------------------------------------------------
(* Properties of the reaction handlers, checked under Spec. *)

\* C11: in every reachable state no two reactions have the same user and the
\* same recommendation; and whenever a request is taken, a post_reaction by
\* a user on a recommendation on which that user has a reaction ends in 409
\* and leaves the database, the existing reaction included, as it was.
C11_OneReactionPerUser ==
    /\ \A c, e \in db.reaction :
          (c.user_id = e.user_id /\ c.recommendation_id = e.recommendation_id)
             => c = e
    /\ Ready =>
          \A c \in db.reaction, data \in ValidReactionBodies :
             LET res == post_reaction(db, c.user_id, c.recommendation_id, data)
             IN  res.status = 409 /\ res.db = db

\* a second post_reaction has just ended in 409 and the reaction is there
C11_Witness ==
    /\ last.op = "post_reaction" /\ last.status = 409
    /\ db.reaction # {}

------------------------------------------------------------------------------
(* Properties of the reference data, checked under SpecDedup. *)

\* C18: no step removes or changes a tag row or a fiction-type row: every
\* row (id, name, slug) that exists before a step exists after it, whether
\* the step deletes a recommendation or replaces its tags or fiction type.
C18_ReferenceDataKept ==
    [][/\ db.tag \subseteq db'.tag
       /\ db.fiction_type \subseteq db'.fiction_type]_vars

\* the only recommendation has just been deleted and its tag and fiction
\* type are still stored, linked to nothing
C18_Witness ==
    /\ last.op = "delete_recommendation" /\ last.status = 204
    /\ db.recommendation = {} /\ db.tagged_recommendations = {}
    /\ db.tag # {} /\ db.fiction_type # {}

------------------------------------------------------------------------------
(* Properties of the validation of request bodies, checked under Spec. *)

Rejected(res, d) == res.status = 422 /\ res.db = d

\* C19: whenever a request is taken, for an authenticated caller every body
\* that fails its schema (no body, a required field missing, a fiction type
\* shorter than 4 characters, an empty tag list) ends in 422 with the
\* database unchanged, for every addressed recommendation, comment and
\* reaction id, whether or not the addressed row exists.
C19_ValidationFirst ==
    Ready =>
       \A token \in Users :
          /\ \A data \in CreateBodies \ {b \in CreateBodies : RecommendationCreateValid(b)} :
                Rejected(post_recommendation(db, token, data), db)
          /\ \A rid \in RecommendationIds :
                /\ \A data \in UpdateBodies \ ValidUpdateBodies :
                      Rejected(update_recommendation(db, token, rid, data), db)
                /\ \A data \in CommentBodies \ ValidCommentBodies :
                      /\ Rejected(post_comment(db, token, rid, data), db)
                      /\ \A cid \in CommentIds :
                            Rejected(update_comment(db, token, rid, cid, data), db)
                /\ \A data \in ReactionBodies \ ValidReactionBodies :
                      /\ Rejected(post_reaction(db, token, rid, data), db)
                      /\ \A cid \in ReactionIds :
                            Rejected(update_reaction(db, token, rid, cid, data), db)

\* an update sent to a recommendation that does not exist has just ended in
\* 422
C19_Witness ==
    /\ last.op = "update_recommendation" /\ last.status = 422
    /\ db.recommendation = {}

\* C20: whenever a request is taken, an update_recommendation with an empty
\* JSON object by an authenticated caller ends in 404 when the recommendation
\* does not exist, in 403 when it exists and the caller is not its owner, and
\* in 400 when the caller is its owner; and an update_recommendation ends in
\* 400 only for the owner of an existing recommendation and an empty object.
C20_CheckOrder ==
    Ready =>
       \A token \in Users, rid \in RecommendationIds :
          LET recommendation == get_recommendation_by_id(db, rid)
              owner == recommendation # {} /\ First(recommendation).user_id = token
          IN  /\ update_recommendation(db, token, rid, NoDataBody) =
                    IF recommendation = {} THEN NotFoundResponse(db, "recommendation")
                    ELSE Response(db, IF ~owner THEN 403 ELSE 400)
              /\ \A data \in UpdateBodies :
                    update_recommendation(db, token, rid, data).status = 400
                       => owner /\ data = NoDataBody

\* an empty object sent by the owner of a stored recommendation has just
\* been refused with 400
C20_Witness ==
    /\ last.op = "update_recommendation" /\ last.status = 400
    /\ db.recommendation # {}

------------------------------------------------------------------------------
(* Properties of registration, login and token verification, checked under *)
(* SpecAuth.                                                               *)

ValidRegisterBodies == {b \in RegisterBodies : UserCreateValid(b)}
ValidUserUpdateBodies == {b \in UserUpdateBodies : UserUpdateValid(b)}
HashSalts == 1..(NumUsers + 1)

\* C12: whenever a request is taken, a registration with a valid body whose
\* username is the username of a stored identity ends in 409 with detail
\* "Duplicate username", and one whose username is free and whose email is
\* the email of a stored identity ends in 409 with detail "Duplicate email";
\* in both cases the user table, every stored hash included, is unchanged.
C12_DuplicateRegistration ==
    Ready =>
       \A data \in ValidRegisterBodies, salt \in HashSalts :
          LET res == register(auth, data, salt)
              username_taken == \E u \in auth.user : u.username = data.username
              email_taken == \E u \in auth.user : u.email = data.email
          IN  /\ username_taken =>
                    res = AuthResponse(auth, 409, "Duplicate username")
              /\ (email_taken /\ ~username_taken) =>
                    res = AuthResponse(auth, 409, "Duplicate email")

\* a registration with the username of a stored identity and another
\* password has just ended in 409
C12_Witness ==
    /\ last.op = "register" /\ last.status = 409
    /\ last.body = "Duplicate username"
    /\ \E u \in auth.user :
          /\ u.username = last.req.username
          /\ ~verify_password(last.req.password, u.hashed_password)

\* C13: in every reachable state no two identities have the same id, the
\* same username or the same email; and whenever a request is taken, a
\* profile update by an authenticated identity whose target username or
\* email is that of another identity ends in 409 and leaves the user table
\* unchanged.
C13_UniqueIdentities ==
    /\ \A u, v \in auth.user :
          (u.id = v.id \/ u.username = v.username \/ u.email = v.email) => u = v
    /\ Ready =>
          \A X \in auth.user, data \in ValidUserUpdateBodies, own_conflicts \in BOOLEAN :
             LET res == update_users_me(auth, create_access_token(X.id, auth.now),
                                        data, own_conflicts)
                 others == auth.user \ {X}
             IN  (\/ IsSet(data.username)
                        /\ \E u \in others : u.username = Val(data.username)
                  \/ IsSet(data.email)
                        /\ \E u \in others : u.email = Val(data.email))
                    => res.status = 409 /\ res.auth = auth

\* a profile update to the username of another identity has just ended in 409
C13_Witness ==
    /\ last.op = "update_users_me" /\ last.status = 409
    /\ IsSet(last.req.username)
    /\ \E u \in auth.user :
          /\ u.username = Val(last.req.username)
          /\ u.id # verify_token(auth, last.token)

\* C14: the token the client holds resolves, until its expiry, to the
\* identity that logged in; and whenever a request is taken, for every stored
\* identity X some password logs X in, and the token of a login as X,
\* presented at any time up to its expiry, resolves to X.id, makes
\* read_users_me return the id, username and email of X, and makes
\* post_recommendation create a recommendation whose owner is X.id.
C14_TokenResolves ==
    /\ (IsSet(auth.held) /\ auth.now <= Val(auth.held).token.exp) =>
          verify_token(auth, Val(auth.held).token) = Val(auth.held).user_id
    /\ Ready =>
          \A X \in auth.user :
             /\ \E p \in Passwords :
                   login(auth, [username |-> X.username, password |-> p]).status = 200
             /\ \A p \in Passwords :
                   LET res == login(auth, [username |-> X.username, password |-> p])
                   IN  res.status = 200 =>
                          \A now \in auth.now..res.body.access_token.exp :
                             LET token == res.body.access_token
                                 a == [auth EXCEPT !.now = now]
                                 out == post_recommendation(db, verify_token(a, token),
                                                            AuthCreateBody)
                             IN  /\ verify_token(a, token) = X.id
                                 /\ read_users_me(a, token) =
                                       AuthResponse(a, 200, UserRead(X))
                                 /\ out.status = 201
                                 /\ out.db.recommendation # db.recommendation
                                 /\ \A r \in out.db.recommendation \ db.recommendation :
                                       r.user_id = X.id

\* the second identity has logged in and, a tick later, has created a
\* recommendation with the token of that login
C14_Witness ==
    /\ last.op = "post_recommendation" /\ last.status = 201
    /\ IsSet(auth.held) /\ last.token = Val(auth.held).token
    /\ Val(auth.held).user_id = 2 /\ auth.now > last.token.iat
    /\ \E r \in db.recommendation : r.user_id = 2

\* C15: in every reachable state every well-formed token whose expires_at is
\* before the current time fails verification and read_users_me answers it
\* with 401, whichever key signed it; and every step leaves every such token
\* failing: the clock never goes back and no step makes an expired token
\* verify.
C15_ExpiredStaysInvalid ==
    /\ [](\A token \in AllTokens :
            (Wellformed(token) /\ token.exp < auth.now) =>
               /\ verify_token(auth, token) = 0
               /\ read_users_me(auth, token) =
                     AuthResponse(auth, 401, "Could not validate credentials"))
    /\ [][/\ auth'.now >= auth.now
          /\ \A token \in AllTokens :
                (Wellformed(token) /\ token.exp < auth.now) =>
                   verify_token(auth', token) = 0]_vars

\* the token of the last login, presented after its expiry while its
\* identity is stored, has just been refused
C15_Witness ==
    /\ last.op = "read_users_me" /\ last.status = 401
    /\ IsSet(auth.held) /\ last.token = Val(auth.held).token
    /\ SignatureValid(last.token) /\ auth.now > last.token.exp
    /\ get_user_by_id(auth, last.token.sub) # {}

\* a token that must not authenticate: no token, a string that is no token,
\* a signature with another key, an expiry in the past, a subject that is
\* not stored
BadToken(a, token) ==
    \/ token.kind # "jwt"
    \/ token.key # SecretKey
    \/ token.exp < a.now
    \/ \A u \in a.user : u.id # token.sub

\* C16: whenever a request is taken, every bad token resolves to no
\* identity, and every protected handler answers it with one and the same
\* response (401, WWW-Authenticate: Bearer, the same body for the profile
\* endpoints) and writes nothing, whatever the rest of the request.
C16_FailClosed ==
    Ready =>
       \A token \in AllTokens :
          BadToken(auth, token) =>
             LET unauthenticated ==
                    AuthResponse(auth, 401, "Could not validate credentials")
                 nobody == verify_token(auth, token)
             IN  /\ nobody = 0
                 /\ read_users_me(auth, token) = unauthenticated
                 /\ \A data \in UserUpdateBodies, own_conflicts \in BOOLEAN :
                       update_users_me(auth, token, data, own_conflicts) = unauthenticated
                 /\ \A data \in CreateBodies :
                       post_recommendation(db, nobody, data) = Response(db, 401)
                 /\ \A rid \in RecommendationIds :
                       /\ \A data \in UpdateBodies :
                             update_recommendation(db, nobody, rid, data) = Response(db, 401)
                       /\ delete_recommendation(db, nobody, rid) = Response(db, 401)

\* the unexpired token of a stored identity, signed with another key, has
\* just been refused
C16_Witness ==
    /\ last.op = "update_users_me" /\ last.status = 401 /\ last.hdr = "Bearer"
    /\ IsSet(auth.held)
    /\ last.token = [Val(auth.held).token EXCEPT !.key = OtherKey]
    /\ auth.now <= last.token.exp
    /\ get_user_by_id(auth, last.token.sub) # {}

Usernames == {"alice", "bobby", "carol", "no_one"}

\* C17: whenever a request is taken, a login with a username that no
\* identity has and a login with the username of an identity and a wrong
\* password get the same response, status 401, header WWW-Authenticate:
\* Bearer and the same body, and change nothing.
C17_NoEnumeration ==
    Ready =>
       \A X \in auth.user, unknown \in Usernames, p, q \in Passwords :
          (/\ get_user_with_username(auth, unknown) = {}
           /\ ~verify_password(p, X.hashed_password))
             => LET wrong_password ==
                       login(auth, [username |-> X.username, password |-> p])
                    unknown_user ==
                       login(auth, [username |-> unknown, password |-> q])
                IN  /\ wrong_password = unknown_user
                    /\ unknown_user.status = 401 /\ unknown_user.hdr = "Bearer"
                    /\ unknown_user.auth = auth

\* a login with the username of a stored identity and a wrong password has
\* just ended in 401
C17_Witness ==
    /\ last.op = "login" /\ last.status = 401
    /\ get_user_with_username(auth, last.req.username) # {}

------------------------------------------------------------------------------
(* Properties of the fields of owned resources, checked under Spec. *)

\* the rows of a table before and after a step that have the same id
Kept(before, after) == {<<q, r>> \in before \X after : q.id = r.id}

\* the rows of a table after a step whose id was not there before
New(before, after) == {r \in after : \A q \in before : q.id # r.id}

\* C21: whenever a request is taken, an update of a recommendation or a
\* comment that ends in 200 leaves the addressed row with `updated` set, and
\* one that ends in any other status writes nothing; and in every step a new
\* recommendation or comment has `updated` null, a row whose `updated` is set
\* keeps it set, and `updated` changes only in a step that answers an update
\* of that kind of resource with 200.
C21_UpdatedOnlyByUpdate ==
    /\ [](Ready =>
            \A token \in Tokens, rid \in RecommendationIds :
               /\ \A data \in UpdateBodies :
                     LET res == update_recommendation(db, token, rid, data)
                     IN  IF res.status = 200
                         THEN \A r \in get_recommendation_by_id(res.db, rid) :
                                 r.updated = 1
                         ELSE res.db = db
               /\ \A kid \in CommentIds, data \in CommentBodies :
                     LET res == update_comment(db, token, rid, kid, data)
                     IN  IF res.status = 200
                         THEN \A c \in get_comment_by_id_and_recommendation_id(
                                           res.db, rid, kid) : c.updated = 1
                         ELSE res.db = db)
    /\ [][/\ \A r \in New(db.recommendation, db'.recommendation) : r.updated = 0
          /\ \A c \in New(db.comment, db'.comment) : c.updated = 0
          /\ \A k \in Kept(db.recommendation, db'.recommendation) :
                /\ k[1].updated = 1 => k[2].updated = 1
                /\ k[1].updated # k[2].updated =>
                      last'.op = "update_recommendation" /\ last'.status = 200
          /\ \A k \in Kept(db.comment, db'.comment) :
                /\ k[1].updated = 1 => k[2].updated = 1
                /\ k[1].updated # k[2].updated =>
                      last'.op = "update_comment" /\ last'.status = 200]_vars

\* a comment has just been updated: it has `updated` set while its
\* recommendation, never updated, has not
C21_Witness ==
    /\ last.op = "update_comment" /\ last.status = 200
    /\ \E c \in db.comment :
          /\ c.updated = 1
          /\ \E r \in db.recommendation :
                r.id = c.recommendation_id /\ r.updated = 0

\* an update body that supplies the empty string for text fields
EmptyText(fields) ==
    [k \in DOMAIN NoDataBody |-> IF k \in fields THEN Some("") ELSE Unset]

EmptyTextBodies ==
    {EmptyText(fields) :
        fields \in (SUBSET {"title", "short_description", "opinion"}) \ {{}}}

\* an update body that supplies the empty string for the fiction type
EmptyFictionType == [NoDataBody EXCEPT !.fiction_type = Some(<<>>)]

\* the database after a request that only sets `updated` on a row
Touched(d, table, row) ==
    [d EXCEPT ![table] = (@ \ {row}) \cup {[row EXCEPT !.updated = 1]}]

\* C22 (as corrected): whenever a request is taken, an update by the owner
\* that supplies the empty string for title, short_description or opinion,
\* or for the content of a comment, ends in 200 and changes nothing but
\* `updated`, which it sets; an update that supplies the empty string for
\* fiction_type ends in 422 and writes nothing.
C22_EmptyIsAbsent ==
    Ready =>
       /\ \A r \in db.recommendation :
             /\ \A data \in EmptyTextBodies :
                   update_recommendation(db, r.user_id, r.id, data) =
                      Response(Touched(db, "recommendation", r), 200)
             /\ update_recommendation(db, r.user_id, r.id, EmptyFictionType) =
                   Response(db, 422)
       /\ \A c \in db.comment :
             update_comment(db, c.user_id, c.recommendation_id, c.id,
                            [content |-> Some("")]) =
                Response(Touched(db, "comment", c), 200)

\* C22 (as stated): an update by the owner that supplies the empty string
\* for title, short_description, opinion or fiction_type ends in 200.
C22_EmptyAlwaysAccepted ==
    Ready =>
       \A r \in db.recommendation, data \in EmptyTextBodies \cup {EmptyFictionType} :
          update_recommendation(db, r.user_id, r.id, data).status = 200

\* an update with empty strings has just ended in 200: a recommendation has
\* `updated` set and every recommendation still has the title it was
\* created with
C22_Witness ==
    /\ last.op = "update_recommendation" /\ last.status = 200
    /\ \E r \in db.recommendation : r.updated = 1
    /\ \A r \in db.recommendation : r.title = "t1" /\ r.opinion = "t1"

------------------------------------------------------------------------------
(* Properties of the update of a recommendation, checked under SpecDedup. *)

TagOnlyBodies ==
    {RecommendationBody(Unset, Unset, Some(tags)) :
        tags \in {<<ab>>, <<_Ab>>, <<a_b>>, <<ab, a_b>>, <<a_b, _Ab>>, <<ab, _Ab>>}}

\* the names of the tags linked to a recommendation
TagNamesOf(d, recommendation_id) ==
    {t.name : t \in {q \in d.tag : q.id \in TagsOf(d, recommendation_id)}}

\* the rows and links of the recommendations other than one
Others(d, recommendation_id) ==
    [recommendation |-> {r \in d.recommendation : r.id # recommendation_id},
     tagged_recommendations |->
        {l \in d.tagged_recommendations : l.recommendation_id # recommendation_id},
     comment |-> d.comment, reaction |-> d.reaction]

\* C23: whenever a request is taken, for every update of a recommendation by
\* its owner that ends in 200: when the body supplies tags, the tags of the
\* recommendation afterwards are exactly the canonical names of the supplied
\* labels, and otherwise they are the tags it had; every field the body does
\* not supply (title, short_description, opinion, fiction type) keeps its
\* value, as do id, owner and published; and the other recommendations, the
\* comments and the reactions are unchanged.  A body that supplies only tags
\* changes nothing of the row but `updated`.
C23_OnlySuppliedFieldsChange ==
    Ready =>
       \A r \in db.recommendation,
          data \in ValidDedupUpdateBodies \cup TagOnlyBodies :
          LET res == update_recommendation(db, r.user_id, r.id, data)
              after == First(get_recommendation_by_id(res.db, r.id))
          IN  res.status = 200 =>
                 /\ get_recommendation_by_id(res.db, r.id) # {}
                 /\ TagNamesOf(res.db, r.id) =
                       IF IsSet(data.tags)
                       THEN {TagName(Val(data.tags)[i]) : i \in 1..Len(Val(data.tags))}
                       ELSE TagNamesOf(db, r.id)
                 /\ after.id = r.id /\ after.user_id = r.user_id
                 /\ after.published = r.published
                 /\ ~IsSet(data.title) => after.title = r.title
                 /\ ~IsSet(data.short_description) =>
                       after.short_description = r.short_description
                 /\ ~IsSet(data.opinion) => after.opinion = r.opinion
                 /\ ~IsSet(data.fiction_type) =>
                       after.fiction_type_id = r.fiction_type_id
                 /\ data \in TagOnlyBodies => after = [r EXCEPT !.updated = 1]
                 /\ Others(res.db, r.id) = Others(db, r.id)

\* an update has just ended in 200 and left the only recommendation with
\* the single tag "ab", while the tag "a-b", stored with it at its creation,
\* is linked to nothing
C23_Witness ==
    /\ last.op = "update_recommendation" /\ last.status = 200
    /\ db.seq.recommendation = 1
    /\ \E r \in db.recommendation :
          /\ r.updated = 1
          /\ TagNamesOf(db, r.id) = {TagName(ab)}
          /\ r.fiction_type_id = 1
    /\ \E t \in db.tag :
          /\ t.name = TagName(a_b)
          /\ \A l \in db.tagged_recommendations : l.tag_id # t.id

------------------------------------------------------------------------------
(* Properties of the timestamps, checked under SpecClock. *)

\* C24: in every step, a recommendation or comment that the step creates has
\* as `published` the time of the clock at that step.
C24_PublishedAtCreation ==
    [][/\ \A r \in New(db.recommendation, db'.recommendation) :
             r.published = auth.now
       /\ \A c \in New(db.comment, db'.comment) : c.published = auth.now]_vars

------------------------------------------------------------------------------
(* Properties of the update of a reaction, checked under Spec. *)

\* the reactions of a user on a recommendation
ReactionsOf(d, user_id, recommendation_id) ==
    {c \in d.reaction : c.user_id = user_id /\ c.recommendation_id = recommendation_id}

\* C30: whenever a request is taken, an update_reaction with a boolean b that
\* ends in 200 was sent by the owner of the addressed reaction, changes
\* nothing but that reaction, leaves it with is_positive = b (for b true and
\* b false) and with the id, user_id and recommendation_id it had, and leaves
\* exactly one reaction of that user on that recommendation.
C30_StoresSuppliedBoolean ==
    Ready =>
      \A token \in Tokens, rid \in RecommendationIds, kid \in ReactionIds,
         b \in BOOLEAN :
         LET res == update_reaction(db, token, rid, kid, [is_positive |-> Some(b)])
         IN  res.status = 200 =>
               \E old \in db.reaction :
                  /\ old.id = kid /\ old.recommendation_id = rid
                  /\ old.user_id = get_current_user(token)
                  /\ res.db = [db EXCEPT !.reaction =
                                 (@ \ {old}) \cup {[id |-> old.id,
                                                    user_id |-> old.user_id,
                                                    recommendation_id |-> rid,
                                                    is_positive |-> b]}]
                  /\ Cardinality(ReactionsOf(res.db, old.user_id, rid)) = 1

\* a reaction has just been updated and says false
C30_Witness ==
    /\ last.op = "update_reaction" /\ last.status = 200
    /\ \E c \in db.reaction : ~c.is_positive

------------------------------------------------------------------------------
(* Properties of the slug of a fiction type, checked under SpecDedup. *)

\* C29: whenever a request is taken, a post_recommendation by an
\* authenticated caller with a valid body whose fiction-type name is not the
\* name of a stored fiction type does not fail on the uniqueness of the slug:
\* it ends in 201.
C29_SlugUniqueByName ==
    Ready =>
      \A fiction_type \in {film, Film_, a_b_, a_hyphen_b_},
         token \in DedupTokens \ {0} :
         LET data == RecommendationBody(Some("t1"), Some(fiction_type), Some(<<ab>>))
         IN  (\A f \in db.fiction_type : f.name # FictionTypeName(fiction_type))
                => post_recommendation(db, token, data).status = 201

------------------------------------------------------------------------------
(* Properties of resources addressed under a recommendation, checked under *)
(* SpecChild.                                                               *)

\* the response to a request that is refused before or at a lookup: nothing
\* is written and the status is 401, 422 or 404
Unwritten(res) == res.db = db /\ res.status \in {401, 422, 404}

\* the responses to a get, update and delete of comment or reaction kid under
\* recommendation rid
CommentRequests(token, rid, kid) ==
    {get_comment(db, rid, kid), delete_comment(db, token, rid, kid)}
       \cup {update_comment(db, token, rid, kid, data) : data \in ValidCommentBodies}

ReactionRequests(token, rid, kid) ==
    {get_reaction(db, rid, kid), delete_reaction(db, token, rid, kid)}
       \cup {update_reaction(db, token, rid, kid, data) : data \in ValidReactionBodies}

\* C26: whenever a request is taken, a get, update (with a valid body) or
\* delete of a comment or reaction addressed under a recommendation that
\* exists and is not the one the comment or reaction belongs to ends, for
\* every authenticated caller (its owner included), in the 404 that names the
\* comment or reaction, and under a recommendation that does not exist in the
\* 404 that names the recommendation; for every caller and body such a
\* request writes nothing and ends in 401, 422 or 404.
C26_OnlyUnderOwnParent ==
    Ready =>
      \A rid \in ChildIds, kid \in ChildIds :
         LET exists == get_recommendation_by_id(db, rid) # {}
             comment_elsewhere ==
                 \E c \in db.comment : c.id = kid /\ c.recommendation_id # rid
             reaction_elsewhere ==
                 \E c \in db.reaction : c.id = kid /\ c.recommendation_id # rid
         IN  /\ (exists /\ comment_elsewhere) =>
                   /\ \A token \in Users : \A res \in CommentRequests(token, rid, kid) :
                         res = NotFoundResponse(db, "comment")
                   /\ \A token \in Tokens, data \in CommentBodies :
                         /\ Unwritten(update_comment(db, token, rid, kid, data))
                         /\ Unwritten(delete_comment(db, token, rid, kid))
             /\ (exists /\ reaction_elsewhere) =>
                   /\ \A token \in Users : \A res \in ReactionRequests(token, rid, kid) :
                         res = NotFoundResponse(db, "reaction")
                   /\ \A token \in Tokens, data \in ReactionBodies :
                         /\ Unwritten(update_reaction(db, token, rid, kid, data))
                         /\ Unwritten(delete_reaction(db, token, rid, kid))
             /\ ~exists =>
                   /\ \A token \in Users :
                         \A res \in CommentRequests(token, rid, kid)
                                      \cup ReactionRequests(token, rid, kid) :
                         res = NotFoundResponse(db, "recommendation")
                   /\ \A token \in Tokens :
                         /\ \A data \in CommentBodies :
                               Unwritten(update_comment(db, token, rid, kid, data))
                         /\ \A data \in ReactionBodies :
                               Unwritten(update_reaction(db, token, rid, kid, data))
                         /\ Unwritten(delete_comment(db, token, rid, kid))
                         /\ Unwritten(delete_reaction(db, token, rid, kid))

\* an update of a comment addressed under an existing recommendation that is
\* not its own has just been answered with the 404 that names the comment
C26_Witness ==
    /\ last.op = "update_comment" /\ last.status = 404 /\ last.detail = "comment"
    /\ get_recommendation_by_id(db, last.rid) # {}
    /\ \E c \in db.comment : c.id = last.kid /\ c.recommendation_id # last.rid

\* the rows of the comments, reactions and tag associations that refer to a
\* recommendation
RowsOf(d, recommendation_id) ==
    {c \in d.comment \cup d.reaction \cup d.tagged_recommendations :
        c.recommendation_id = recommendation_id}

------------------------------------------------------------------------------
(* Properties of concurrent requests on comments and reactions, checked    *)
(* under SpecChildRace.                                                     *)

\* C25: in every step that commits a post_reaction whose recommendation
\* exists, the request ends in 201 or in 409; and in every reachable state no
\* two reactions have the same user and the same recommendation.
C25_LoserGetsConflict ==
    /\ [](\A c, e \in db.reaction :
            (c.user_id = e.user_id /\ c.recommendation_id = e.recommendation_id)
               => c = e)
    /\ [][\A p \in Procs :
            (/\ inflight[p] # <<>> /\ inflight'[p] = <<>>
             /\ Val(inflight[p]).op = "post_reaction"
             /\ get_recommendation_by_id(
                   db, Val(inflight[p]).uow.row.recommendation_id) # {})
               => last'.status \in {201, 409}]_vars

\* C28: in every reachable state every comment and every reaction refers to
\* a recommendation that exists.
C28_NoOrphan ==
    \A c \in db.comment \cup db.reaction :
       get_recommendation_by_id(db, c.recommendation_id) # {}

====
